---- MODULE Spec2Model ----
(***************************************************************************)
(* State-machine model of the relay core of claude-relay-service:          *)
(*   - DistributedLockService (src/src/services/distributedLockService.js) *)
(*   - DroidRelayService      (src/src/services/droidRelayService.js)      *)
(*   - IntelligentAccountSelector (src/src/services/encryptionService.js)  *)
(*   - EncryptionService      (src/src/services/encryptionService.js)      *)
(*   - StreamManager          (src/src/utils/streamManager.js)             *)
(* Several specifications share the module: SpecLock (the lock service and *)
(* its callers; SpecLockLive adds the fairness of the event loop),         *)
(* SpecMulti (one acquireMultipleLocks call), SpecSticky (API-key          *)
(* selection with sticky mappings and the upstream-4xx health classifier), *)
(* SpecRelay (one relay operation, buffered or streaming; SpecRelayLive    *)
(* adds the delivery of the events the runtime owes), SpecSelect (one      *)
(* selectOptimalAccount call), SpecEnc (encrypt, decrypt and the decrypt   *)
(* cache), SpecSm (the StreamManager's registrations and cleanups), and    *)
(* one specification for each group of helper functions of the relay:      *)
(* SpecNet (a network error mapped to a status and a body), SpecUsage      *)
(* (usage normalization), SpecSse (usage parsed from a stream) and SpecRb  *)
(* (the request body normalized and processed).                            *)
(* Each specification moves its own group of variables and leaves the      *)
(* other groups at their initial values.                                   *)
(***************************************************************************)
EXTENDS Integers, Sequences, FiniteSets, TLC

VARIABLES
  now,        \* the clock of the coordination store, in ticks
  lockStore,  \* Redis: resource key -> NoEntry or [val, exp]
  lpc,        \* lock caller -> position in acquireLock / withLock / releaseLock / extendLock
  lcall,      \* lock caller -> the running call: mode, loop index i, SET attempts made while it
              \* has not acquired, value, wakeAt, autoExtend, explicit extends
  lock,       \* lock caller -> the Lock object it was handed (NoLock when none)
  lres,       \* lock caller -> [op, ret, err]: its last finished store operation
  timer,      \* withLock's running auto-extend interval timers: a set of [value, at]
  lbudget,    \* [calls, errors]: calls started and store errors injected so far
  keyStatus,  \* API key id of the pool -> "active" or "error"
  account,    \* the Droid account: [status, schedulable, auth]
  keyMap,     \* Redis: the key-level sticky mapping droid_api_key:<account>:<endpoint>:<session>
  acctMap,    \* Redis: the account-level sticky mapping droid:<endpoint>:<client key>:<session>
  rateLimit,  \* Redis: the marker droid:ratelimit:<account>
  req,        \* relay request -> its position in relayRequest and what it has read so far
  sbudget,    \* [requests, errors]: relay requests started and collaborator failures so far
  relay,      \* one relay operation: the closure state of _handleStreamRequest / the axios call
  sink,       \* the usage sink: the usage totals recorded, in order
  sel,        \* one selectOptimalAccount call: its input, its position, its intermediate
              \* values and the account it returns
  net,        \* one network error on its way to the client: the error, the mapped status
              \* and the error body
  usg,        \* one usage object on its way to the sink: the raw fields, the normalized
              \* snapshot and the total
  sse,        \* one upstream answer with usage, streamed in chunks and as a single body:
              \* the lines, the pieces received, currentUsageData, the two snapshots
  rb,         \* one request body on its way upstream: the endpoint type, the options, the
              \* body as received, the body now, and how often it was processed
  ml,         \* one acquireMultipleLocks call: the resources asked for, the store, the
              \* position in the two loops, the locks acquired so far, the outcome
  enc,        \* the encryption service with one secret: the plaintext, the context, the
              \* last ciphertext, the decrypt cache, the last decrypt call and its result
  sm          \* the StreamManager: activeStreams, activeControllers, activeTimers, the
              \* registrations made, and whether cleanupAll has run

lockVars == <<lockStore, lpc, lcall, lock, lres, timer, lbudget>>
stickyVars == <<keyStatus, account, keyMap, acctMap, rateLimit, req, sbudget>>
relayVars == <<relay, sink>>
selVars == <<sel>>
pureVars == <<net, usg, sse, rb, ml, enc, sm>>
nonLockVars == <<stickyVars, relayVars, selVars, pureVars>>
nonStickyVars == <<lockVars, relayVars, selVars, pureVars>>
nonRelayVars == <<now, lockVars, stickyVars, selVars, pureVars>>
nonSelVars == <<now, lockVars, stickyVars, relayVars, pureVars>>
nonNetVars == <<now, lockVars, stickyVars, relayVars, selVars, usg, sse, rb, ml, enc, sm>>
nonUsgVars == <<now, lockVars, stickyVars, relayVars, selVars, net, sse, rb, ml, enc, sm>>
nonSseVars == <<now, lockVars, stickyVars, relayVars, selVars, net, usg, rb, ml, enc, sm>>
nonRbVars == <<now, lockVars, stickyVars, relayVars, selVars, net, usg, sse, ml, enc, sm>>
nonMlVars == <<now, lockVars, stickyVars, relayVars, selVars, net, usg, sse, rb, enc, sm>>
nonEncVars == <<now, lockVars, stickyVars, relayVars, selVars, net, usg, sse, rb, ml, sm>>
nonSmVars == <<now, lockVars, stickyVars, relayVars, selVars, net, usg, sse, rb, ml, enc>>
vars == <<now, lockVars, stickyVars, relayVars, selVars, pureVars>>

----------------------------------------------------------------------------
(* Bounds of the model *)

MaxTime == 3        \* the clock stops advancing here
MaxCalls == 2       \* acquireLock / withLock calls, all callers together
MaxStoreErrors == 1 \* store commands that throw, all callers together
Retries == 2        \* options.retries of every call
RetryDelay == 1     \* options.retryDelay of every call, in ticks
MaxExtends == 1     \* explicit extendLock calls per held lock

(* One tick is the auto-extend interval; withLock's default interval is    *)
(* lock.ttl / 3, so a lease lasts three ticks.                             *)
TTLTicks == 3

\* (mutant) an interval longer than the lease
ExtendIntervalLong == TTLTicks + 1

ExtendInterval == TTLTicks \div 3

Callers == {"a", "b"}
Resource == "r"
NoEntry == [val |-> <<>>, exp |-> 0]
NoLock == [value |-> <<>>, ttl |-> 0, acquiredAt |-> 0, expiresAt |-> 0]
NoCall == [mode |-> "none", i |-> 0, attempts |-> 0, value |-> <<>>, wakeAt |-> 0,
           auto |-> FALSE, ext |-> 0]
NoRes == [op |-> "none", ret |-> "none", err |-> FALSE]

----------------------------------------------------------------------------
(* The coordination store's primitives, as the lock service uses them *)

\* crypto.randomBytes(16): a value no other call draws
RandomValue(c, n) == <<c, n>>

\* (mutant) SET without NX: the value is written over a live lease
SetOverwrite(store, key, value, ttl, t) ==
  [reply |-> "OK", store |-> [store EXCEPT ![key] = [val |-> value, exp |-> t + ttl]]]

\* SET key value PX ttl NX: the reply and the store afterwards
SetNx(store, key, value, ttl, t) ==
  IF store[key] = NoEntry
    THEN [reply |-> "OK", store |-> [store EXCEPT ![key] = [val |-> value, exp |-> t + ttl]]]
    ELSE [reply |-> "nil", store |-> store]

\* (mutant) a script guard that only tests that the key exists
KeyExists(store, key, value) == store[key] # NoEntry

\* the Lua script's guard: redis.call("get", KEYS[1]) == ARGV[1]
ValueMatches(store, key, value) == store[key] # NoEntry /\ store[key].val = value

\* releaseLock's script: compare, then del
ReleaseScriptStore(store, key, value) ==
  IF ValueMatches(store, key, value) THEN [store EXCEPT ![key] = NoEntry] ELSE store

\* extendLock's script: compare, then pexpire
ExtendScriptStore(store, key, value, ttl, t) ==
  IF ValueMatches(store, key, value)
    THEN [store EXCEPT ![key] = [val |-> value, exp |-> t + ttl]]
    ELSE store

\* TTL expiry: the entries still present at time t
Expire(store, t) ==
  [k \in DOMAIN store |-> IF store[k] # NoEntry /\ store[k].exp <= t THEN NoEntry ELSE store[k]]

----------------------------------------------------------------------------
(* Initial state *)

InitLockVars ==
  /\ lockStore = [k \in {Resource} |-> NoEntry]
  /\ lpc = [c \in Callers |-> "idle"]
  /\ lcall = [c \in Callers |-> NoCall]
  /\ lock = [c \in Callers |-> NoLock]
  /\ lres = [c \in Callers |-> NoRes]
  /\ timer = {}
  /\ lbudget = [calls |-> 0, errors |-> 0]

----------------------------------------------------------------------------
(* The account, its key pool and the sticky mappings: state and primitives *)

MaxRequests == 2    \* relay requests, all clients together
MaxDepErrors == 1   \* collaborator calls that fail, all requests together
MaxStickyTime == 2  \* the clock of the sticky store stops advancing here
StickyTTL == 2      \* lifetime of a sticky mapping, in ticks

\* the 429 exclusion lasts rateLimitDuration = 300 seconds: one tick
RateLimitTicks == 1

Reqs == {"r1", "r2"}
Keys == {"k1", "k2", "k3"}
None == "none"
NoMapping == [val |-> None, exp |-> 0]
AuthModes == {"api_key", "oauth"}
Statuses == {200, 400, 401, 403, 404, 418, 429}

NoReq == [pc |-> "idle", sess |-> FALSE, active |-> {}, mapped |-> None, key |-> None,
          status |-> 0, hit |-> FALSE, last |-> FALSE, rem |-> FALSE, failed |-> FALSE,
          clearedKey |-> FALSE, clearedAcct |-> FALSE]

\* redis.getSessionAccountMapping: the mapped id, or nothing
GetMapping(m) == IF m = NoMapping THEN None ELSE m.val

\* redis.setSessionAccountMapping: conditional set, a live mapping is left alone
SetMappingIfAbsent(m, id, t) == IF m = NoMapping THEN [val |-> id, exp |-> t + StickyTTL] ELSE m

\* redis.extendSessionAccountMappingTTL: a live mapping gets the full TTL again
ExtendMappingTTL(m, t) == IF m = NoMapping THEN m ELSE [m EXCEPT !.exp = t + StickyTTL]

\* TTL expiry of one store entry
ExpireEntry(m, t) == IF m # NoMapping /\ m.exp <= t THEN NoMapping ELSE m

\* (mutant) the entries are not filtered
ActiveEntriesAll(ks) == Keys

\* entries.filter((entry) => entry.status !== 'error')
ActiveEntries(ks) == {k \in Keys : ks[k] # "error"}

\* (mutant) marking a key that is in error status makes it active again
MarkApiKeyToggle(ks, k) == [ks EXCEPT ![k] = IF ks[k] = "error" THEN "active" ELSE "error"]

\* droidAccountService.markApiKeyAsError
MarkApiKeyAsError(ks, k) == [ks EXCEPT ![k] = "error"]

\* the scheduler's eligibility: active, schedulable, not rate-limited
Eligible == account.status = "active" /\ account.schedulable /\ rateLimit = NoMapping

InitStickyVars ==
  /\ keyMap = NoMapping
  /\ acctMap = NoMapping
  /\ rateLimit = NoMapping
  /\ req = [r \in Reqs |-> NoReq]
  /\ sbudget = [requests |-> 0, errors |-> 0]

\* the sticky group at rest, for the specifications that do not move it
StickyAtRest ==
  /\ InitStickyVars
  /\ keyStatus = [k \in Keys |-> "active"]
  /\ account = [status |-> "active", schedulable |-> TRUE, auth |-> "api_key"]

----------------------------------------------------------------------------
(* One relay operation: state *)

MaxChunks == 2      \* data chunks of one upstream response
MaxTokens == 2      \* usage a buffered response reports

NoResult == [statusCode |-> 0, error |-> FALSE]
NoError == [code |-> "", message |-> ""]

NoRelay == [pc |-> "idle", mode |-> "none", skip |-> FALSE, upstatus |-> 0,
            responseStarted |-> FALSE, responseCompleted |-> FALSE, settled |-> FALSE,
            hasForwardedData |-> FALSE, ended |-> FALSE, endAwait |-> FALSE,
            usage |-> 0, chunks |-> 0, clientGone |-> FALSE, clientEnded |-> FALSE,
            reqDestroyed |-> FALSE, aborted |-> FALSE, pending |-> {}, perr |-> NoError,
            result |-> NoResult, classified |-> FALSE, cancel |-> "no", events |-> <<>>,
            sideFailed |-> FALSE, written |-> <<>>]

InitRelayVars == relay = NoRelay /\ sink = <<>>

----------------------------------------------------------------------------
(* One selectOptimalAccount call: state *)

MaxAccounts == 3    \* accounts in availableAccounts

\* this.usageThresholds, in percent
UsageThresholds == [low |-> 30, medium |-> 50, high |-> 80]

\* the usage percentage the statistics give for an account; Unknown when they
\* give none (the statistics call failed, or no limit is known)
Unknown == -1
Usages == {20, 30, 80, Unknown}

\* account.priority as the caller hands it over: a number, or the string a Redis
\* hash field holds
Priorities == {[t |-> "num", v |-> 0], [t |-> "num", v |-> 30], [t |-> "num", v |-> 80],
               [t |-> "str", v |-> 80]}

\* account.lastUsedAt as a timestamp, 0 when the account was never used
LastUsed == {0, 1}

\* what the caller knows of an account, and what the statistics hold for it
Attrs == [usage : Usages, priority : Priorities, lastUsedAt : LastUsed]

\* the account objects of availableAccounts: the position serves as id, and
\* usagePercentage is not set before the enrichment
AccountList(f) ==
  [i \in DOMAIN f |-> [id |-> i, usage |-> f[i].usage, priority |-> f[i].priority,
                       lastUsedAt |-> f[i].lastUsedAt, usagePercentage |-> Unknown]]

\* null / undefined where an account is expected
NoAccount == [id |-> 0, usage |-> 0, priority |-> [t |-> "none", v |-> 0], lastUsedAt |-> 0,
              usagePercentage |-> Unknown]

NoGroups == [low |-> <<>>, medium |-> <<>>, high |-> <<>>, critical |-> <<>>]

NoSel == [pc |-> "idle", accounts |-> <<>>, enriched |-> <<>>, groups |-> NoGroups,
          result |-> NoAccount, fallback |-> FALSE]

SelAtRest == sel = NoSel

----------------------------------------------------------------------------
(* The helper functions of the relay, one call each: state *)

NoBody == [error |-> "", suggestions |-> 0, code |-> "", details |-> ""]
NoNet == [pc |-> "idle", err |-> NoError, status |-> 0, body |-> NoBody]

\* the values a field of a usage object can hold: none, null, a number, a string
\* Number() parses, the empty string, a string Number() does not parse
Undefined == [t |-> "undefined", v |-> 0]
Null == [t |-> "null", v |-> 0]
EmptyString == [t |-> "empty", v |-> 0]
NotANumber == [t |-> "nan", v |-> 0]
Num(n) == [t |-> "number", v |-> n]
NumString(n) == [t |-> "string", v |-> n]

\* a usage object without any field (cache_creation?. and input_tokens_details?. are
\* flattened into c5m, c1h and cached_tokens)
NoUsageData ==
  [input_tokens |-> Undefined, prompt_tokens |-> Undefined, inputTokens |-> Undefined,
   total_input_tokens |-> Undefined, output_tokens |-> Undefined,
   completion_tokens |-> Undefined, outputTokens |-> Undefined, total_tokens |-> Undefined,
   cache_read_input_tokens |-> Undefined, cacheReadTokens |-> Undefined,
   cached_tokens |-> Undefined, cache_creation_input_tokens |-> Undefined,
   cacheCreateTokens |-> Undefined, cache_tokens |-> Undefined,
   c5m |-> Undefined, ephemeral_5m_input_tokens |-> Undefined,
   c1h |-> Undefined, ephemeral_1h_input_tokens |-> Undefined]

\* normalized.cache_creation when the field is left out
NoCacheCreation == [ephemeral_5m_input_tokens |-> 0, ephemeral_1h_input_tokens |-> 0,
                    present |-> FALSE]

NoNormalized == [input_tokens |-> 0, output_tokens |-> 0, cache_creation_input_tokens |-> 0,
                 cache_read_input_tokens |-> 0, cache_creation |-> NoCacheCreation]

NoUsg == [pc |-> "idle", data |-> NoUsageData, normalized |-> NoNormalized, total |-> 0]

LinePieces == 2     \* pieces a chunk boundary can cut one line of the stream into

NoSse == [pc |-> "idle", endpointType |-> "none", lines |-> <<>>, body |-> NoUsageData,
          got |-> 0, chunks |-> 0, currentUsageData |-> NoUsageData,
          streamed |-> NoNormalized, single |-> NoNormalized, singleDone |-> FALSE]

MaxProcess == 2     \* times one request body is processed

\* a model name: its fragments in lower case, whether some letter of it is in upper
\* case, whether blanks surround it; a model field that is no string has another t
ModelName(w, upper, padded) == [t |-> "string", w |-> w, upper |-> upper, padded |-> padded]
Str(w) == ModelName(w, FALSE, FALSE)
NoModel == [t |-> "undefined", w |-> <<>>, upper |-> FALSE, padded |-> FALSE]
NotAString(t) == [NoModel EXCEPT !.t = t]

EmptyBody == [model |-> NoModel,
              system |-> [t |-> "undefined", items |-> <<>>],
              instructions |-> [t |-> "undefined", s |-> <<>>],
              metadata |-> FALSE, stream |-> "absent",
              temperature |-> "absent", top_p |-> "absent"]

NoOptions == [disableStreaming |-> FALSE, streamRequested |-> FALSE]

NoRb == [pc |-> "idle", endpointType |-> "none", options |-> NoOptions,
         requestBody |-> EmptyBody, body |-> EmptyBody, processed |-> 0]

\* the resources a batch of locks is asked for
MResources == {"x", "y"}

\* no acquireMultipleLocks call is running
NoMulti == [pc |-> "idle", resources |-> <<>>, store |-> [k \in MResources |-> NoEntry],
            idx |-> 0, i |-> 0, locks |-> <<>>, rel |-> 0, errors |-> 0, result |-> "none"]

\* the encryption service before its first call
NoEnc == [pc |-> "idle", text |-> <<>>, context |-> "default", data |-> <<>>,
          encrypts |-> 0, decrypts |-> 0, cache |-> {}, dctx |-> "default",
          result |-> <<>>, threw |-> FALSE, hit |-> FALSE]

\* the ids resources are registered under
StreamIds == {"s1", "s2"}

\* the StreamManager after construction: nothing registered
NoSm == [streams |-> {}, controllers |-> {}, timers |-> [id \in StreamIds |-> "none"],
         registered |-> 0, cleanedAll |-> FALSE]

\* no helper function is being called
PureAtRest ==
  /\ net = NoNet /\ usg = NoUsg /\ sse = NoSse /\ rb = NoRb
  /\ ml = NoMulti /\ enc = NoEnc /\ sm = NoSm

----------------------------------------------------------------------------
(* The clock *)

\* time passes up to MaxTime, and beyond it while a sleeping acquireLock waits for
\* its timer
Tick ==
  /\ now < MaxTime \/ \E c \in Callers : lpc[c] = "sleep" /\ now < lcall[c].wakeAt
  /\ now' = now + 1
  /\ lockStore' = Expire(lockStore, now + 1)
  /\ UNCHANGED <<lpc, lcall, lock, lres, timer, lbudget, nonLockVars>>

----------------------------------------------------------------------------
(* acquireLock *)

\* a caller enters acquireLock (mode "plain") or withLock (mode "with")
AcquireCall(c) ==
  /\ lpc[c] \in {"idle", "null", "threw", "settled"}
  /\ lbudget.calls < MaxCalls
  /\ \E m \in {"plain", "with"}, au \in BOOLEAN :
       /\ (m = "plain" => au = FALSE)
       /\ lcall' = [lcall EXCEPT ![c] =
            [mode |-> m, i |-> 0, attempts |-> 0, value |-> RandomValue(c, lbudget.calls + 1),
             wakeAt |-> 0, auto |-> au, ext |-> 0]]
  /\ lbudget' = [lbudget EXCEPT !.calls = lbudget.calls + 1]
  /\ lpc' = [lpc EXCEPT ![c] = "acq"]
  /\ lock' = [lock EXCEPT ![c] = NoLock]
  /\ lres' = [lres EXCEPT ![c] = NoRes]
  /\ UNCHANGED <<now, lockStore, timer, nonLockVars>>

\* the pc after a successful SET: acquireLock returns the lock, withLock runs fn
AfterAcquired(m) == IF m = "plain" THEN "held" ELSE "fn"

\* the pc after the loop ran out: acquireLock returns null, withLock throws
AfterExhausted(m) == IF m = "plain" THEN "null" ELSE "threw"

\* (mutant) the same delay after every pass
BackoffFixed(i) == RetryDelay

\* retryDelay * (i + 1)
Backoff(i) == RetryDelay * (i + 1)

\* one pass of the for loop whose SET got a reply
AcquireAttempt(c) ==
  /\ lpc[c] = "acq"
  /\ LET k == lcall[c]
         set == SetNx(lockStore, Resource, k.value, TTLTicks, now)
         reply == set.reply
         over == reply = "OK" \/ k.i = Retries
     IN /\ lockStore' = set.store
        /\ lcall' = [lcall EXCEPT ![c].attempts = IF reply = "OK" THEN 0 ELSE k.attempts + 1,
                                  ![c].wakeAt = IF over THEN 0 ELSE now + Backoff(k.i),
                                  ![c].i = IF over THEN 0 ELSE k.i,
                                  ![c].value = IF over THEN <<>> ELSE k.value,
                                  ![c].auto = IF over THEN FALSE ELSE k.auto]
        /\ lres' = [lres EXCEPT ![c] = [op |-> "acquire", ret |-> reply, err |-> FALSE]]
        /\ IF reply = "OK"
             THEN /\ lock' = [lock EXCEPT ![c] =
                       [value |-> k.value, ttl |-> TTLTicks, acquiredAt |-> now,
                        expiresAt |-> now + TTLTicks]]
                  /\ lpc' = [lpc EXCEPT ![c] = AfterAcquired(k.mode)]
                  /\ timer' = IF k.mode = "with" /\ k.auto
                                THEN timer \cup {[value |-> k.value, at |-> now + ExtendInterval]}
                                ELSE timer
             ELSE /\ lpc' = [lpc EXCEPT ![c] =
                       IF k.i < Retries THEN "sleep" ELSE AfterExhausted(k.mode)]
                  /\ UNCHANGED <<lock, timer>>
  /\ UNCHANGED <<now, lbudget, nonLockVars>>

\* one pass of the for loop whose SET threw: rethrown on the last pass, else the
\* loop goes on without sleeping
AcquireError(c) ==
  /\ lpc[c] = "acq"
  /\ lbudget.errors < MaxStoreErrors
  /\ lbudget' = [lbudget EXCEPT !.errors = lbudget.errors + 1]
  /\ LET k == lcall[c]
     IN /\ lcall' = [lcall EXCEPT ![c].attempts = IF k.i = Retries THEN 0 ELSE k.attempts + 1,
                                  ![c].i = IF k.i = Retries THEN 0 ELSE k.i + 1,
                                  ![c].value = IF k.i = Retries THEN <<>> ELSE k.value,
                                  ![c].auto = IF k.i = Retries THEN FALSE ELSE k.auto]
        /\ lres' = [lres EXCEPT ![c] = [op |-> "acquire", ret |-> "error", err |-> TRUE]]
        /\ lpc' = [lpc EXCEPT ![c] = IF k.i = Retries THEN "threw" ELSE "acq"]
  /\ UNCHANGED <<now, lockStore, lock, timer, nonLockVars>>

\* sleep(retryDelay * (i + 1)) is over: the next pass of the loop
AcquireWake(c) ==
  /\ lpc[c] = "sleep"
  /\ now >= lcall[c].wakeAt
  /\ lcall' = [lcall EXCEPT ![c].i = lcall[c].i + 1, ![c].wakeAt = 0]
  /\ lpc' = [lpc EXCEPT ![c] = "acq"]
  /\ UNCHANGED <<now, lockStore, lock, lres, timer, lbudget, nonLockVars>>

----------------------------------------------------------------------------
(* releaseLock and extendLock *)

\* a store command may throw while the error budget lasts
StoreOutcome(failed) ==
  /\ failed => lbudget.errors < MaxStoreErrors
  /\ lbudget' = IF failed THEN [lbudget EXCEPT !.errors = lbudget.errors + 1] ELSE lbudget

\* releaseLock(lock): the script's reply is 1 exactly when it deleted the key
ReleaseLock(c, failed) ==
  LET match == ~failed /\ ValueMatches(lockStore, Resource, lock[c].value)
  IN /\ StoreOutcome(failed)
     /\ lockStore' = IF failed THEN lockStore
                     ELSE ReleaseScriptStore(lockStore, Resource, lock[c].value)
     /\ lres' = [lres EXCEPT ![c] = [op |-> "release", ret |-> match, err |-> failed]]

\* extendLock(lock): on reply 1 the lock object's expiresAt moves to now + ttl
ExtendLock(v, failed, direct) ==
  LET match == ~failed /\ ValueMatches(lockStore, Resource, v)
      c == v[1]
  IN /\ StoreOutcome(failed)
     /\ lockStore' = IF failed THEN lockStore
                     ELSE ExtendScriptStore(lockStore, Resource, v, TTLTicks, now)
     /\ lock' = IF match /\ lock[c].value = v
                  THEN [lock EXCEPT ![c].expiresAt = now + TTLTicks] ELSE lock
     /\ lres' = IF direct
                  THEN [lres EXCEPT ![c] = [op |-> "extend", ret |-> match, err |-> failed]]
                  ELSE lres

\* the holder of a lock object calls releaseLock and drops the object
CallerRelease(c) ==
  /\ lpc[c] = "held"
  /\ \E failed \in BOOLEAN : ReleaseLock(c, failed)
  /\ lpc' = [lpc EXCEPT ![c] = "idle"]
  /\ lock' = [lock EXCEPT ![c] = NoLock]
  /\ lcall' = [lcall EXCEPT ![c] = NoCall]
  /\ UNCHANGED <<now, timer, nonLockVars>>

\* the holder of a lock object calls extendLock
CallerExtend(c) ==
  /\ lpc[c] = "held"
  /\ lcall[c].ext < MaxExtends
  /\ \E failed \in BOOLEAN : ExtendLock(lock[c].value, failed, TRUE)
  /\ lcall' = [lcall EXCEPT ![c].ext = lcall[c].ext + 1]
  /\ UNCHANGED <<now, lpc, timer, nonLockVars>>

----------------------------------------------------------------------------
(* withLock *)

\* the interval callback: extendLock, and clearInterval when it did not extend;
\* the timer is re-armed one interval after the callback ran
TimerFire(tm) ==
  /\ tm \in timer
  /\ now >= tm.at
  /\ \E failed \in BOOLEAN :
       /\ ExtendLock(tm.value, failed, FALSE)
       /\ timer' = IF ~failed /\ ValueMatches(lockStore, Resource, tm.value)
                     THEN (timer \ {tm}) \cup {[tm EXCEPT !.at = now + ExtendInterval]}
                     ELSE timer \ {tm}
  /\ UNCHANGED <<now, lpc, lcall, nonLockVars>>

\* the timers clearInterval(extendTimer) stops
ClearInterval(c) == {tm \in timer : tm.value # lock[c].value}

\* fn() returned: the timer is cleared, then the finally block runs
FnReturn(c) ==
  /\ lpc[c] = "fn"
  /\ timer' = ClearInterval(c)
  /\ lpc' = [lpc EXCEPT ![c] = "finally"]
  /\ lcall' = [lcall EXCEPT ![c].mode = "returned"]
  /\ UNCHANGED <<now, lockStore, lock, lres, lbudget, nonLockVars>>

\* fn() threw or rejected: control goes straight to the finally block
FnThrow(c) ==
  /\ lpc[c] = "fn"
  /\ lpc' = [lpc EXCEPT ![c] = "finally"]
  /\ lcall' = [lcall EXCEPT ![c].mode = "thrown"]
  /\ UNCHANGED <<now, lockStore, lock, lres, timer, lbudget, nonLockVars>>

\* (mutant) the release placed after fn() inside the try block
ReleaseOnReturnOnly == {"returned"}

\* the exits of fn after which the finally block releases the lock
ReleasingExits == {"returned", "thrown"}

\* finally { await this.releaseLock(lock) }, then withLock settles
WithLockFinally(c) ==
  /\ lpc[c] = "finally"
  /\ IF lcall[c].mode \in ReleasingExits
       THEN \E failed \in BOOLEAN : ReleaseLock(c, failed)
       ELSE UNCHANGED <<lockStore, lres, lbudget>>
  /\ lpc' = [lpc EXCEPT ![c] = "settled"]
  /\ UNCHANGED <<now, lcall, lock, timer, nonLockVars>>

----------------------------------------------------------------------------
(* The lock service with its callers *)

NextLock ==
  \/ Tick
  \/ \E c \in Callers : AcquireCall(c)
  \/ \E c \in Callers : AcquireAttempt(c)
  \/ \E c \in Callers : AcquireError(c)
  \/ \E c \in Callers : AcquireWake(c)
  \/ \E c \in Callers : CallerRelease(c)
  \/ \E c \in Callers : CallerExtend(c)
  \/ \E tm \in timer : TimerFire(tm)
  \/ \E c \in Callers : FnReturn(c)
  \/ \E c \in Callers : FnThrow(c)
  \/ \E c \in Callers : WithLockFinally(c)

InitLock == now = 0 /\ InitLockVars /\ StickyAtRest /\ InitRelayVars /\ SelAtRest /\ PureAtRest

SpecLock == InitLock /\ [][NextLock]_vars

\* the event loop runs what is ready: time passes, a pending SET is answered (or
\* throws, while the error budget lasts), a timer that is due fires
SpecLockLive ==
  /\ SpecLock
  /\ WF_vars(Tick)
  /\ \A c \in Callers : WF_vars(AcquireAttempt(c)) /\ WF_vars(AcquireWake(c))

----------------------------------------------------------------------------
(* Properties of the lock service *)

\* the caller was handed a lock, has not released it, and its lease has time left
Holding(c) ==
  /\ lpc[c] \in {"held", "fn", "finally"}
  /\ lock[c] # NoLock
  /\ now < lock[c].expiresAt

\* the store holds the resource key under the caller's fencing token
StoredUnder(c) ==
  /\ lock[c] # NoLock
  /\ lockStore[Resource] # NoEntry
  /\ lockStore[Resource].val = lock[c].value

ReleaseStep(c) ==
  \/ lpc[c] = "held" /\ lpc'[c] = "idle"
  \/ lpc[c] = "finally" /\ lpc'[c] = "settled"

\* this step is an explicit extendLock call of caller c coming back
ExtendStep(c) == lcall'[c].ext = lcall[c].ext + 1

\* this step is the auto-extend callback of timer tm
TimerStep(tm) == tm \in timer /\ tm \notin timer' /\ lpc' = lpc

\* the store does not hold the resource key under value v
NotStoredUnder(v) == lockStore[Resource] = NoEntry \/ lockStore[Resource].val # v

(* C2: releaseLock and extendLock act on the store only when the stored value   *)
(* is the caller's fencing token: for a caller whose token is no longer stored  *)
(* (expired, possibly re-acquired by another) both return false and the store   *)
(* entry, value and expiry, stays as it was.                                    *)
C2_FencedReleaseExtend ==
  [][ /\ \A c \in Callers :
           (ReleaseStep(c) \/ ExtendStep(c)) /\ NotStoredUnder(lock[c].value)
             => lockStore' = lockStore /\ lres'[c].ret = FALSE
      /\ \A tm \in timer :
           TimerStep(tm) /\ NotStoredUnder(tm.value) => lockStore' = lockStore
    ]_vars

\* a caller whose lease ran out got false from extendLock while the other holds the key
C2_Witness ==
  \E a \in Callers, b \in Callers :
    /\ a # b
    /\ lpc[a] = "held" /\ lock[a].expiresAt <= now
    /\ lres[a] = [op |-> "extend", ret |-> FALSE, err |-> FALSE]
    /\ Holding(b) /\ StoredUnder(b)
    /\ lockStore[Resource].exp = lock[b].expiresAt

NilReply(c) == lpc[c] = "acq" /\ lres'[c] = [op |-> "acquire", ret |-> "nil", err |-> FALSE]
                /\ lcall'[c] # lcall[c]
ThrowReply(c) == lpc[c] = "acq" /\ lbudget'.errors = lbudget.errors + 1 /\ lpc'[c] \in {"acq", "threw"}
                  /\ lres'[c].op = "acquire" /\ lres'[c].err
                  /\ (lcall'[c] # lcall[c] \/ lpc'[c] # lpc[c])

\* caller c is inside acquireLock
Acquiring(c) == lpc[c] \in {"acq", "sleep"}

----------------------------------------------------------------------------
(* relayRequest up to the upstream call: account and API key selection *)

\* a collaborator call may fail while the failure budget lasts
DepOutcome(failed) ==
  /\ failed => sbudget.errors < MaxDepErrors
  /\ sbudget' = IF failed THEN [sbudget EXCEPT !.errors = sbudget.errors + 1] ELSE sbudget

\* the store's clock advances and the sticky entries past their TTL disappear
StickyTick ==
  /\ now < MaxStickyTime
  /\ now' = now + 1
  /\ keyMap' = ExpireEntry(keyMap, now + 1)
  /\ acctMap' = ExpireEntry(acctMap, now + 1)
  /\ rateLimit' = ExpireEntry(rateLimit, now + 1)
  /\ UNCHANGED <<keyStatus, account, req, sbudget, nonStickyVars>>

\* a client sends a request, with or without a session hash (one session, one
\* endpoint); the requests being alike, r1 is the first to arrive
StartRequest(r) ==
  /\ req[r].pc \in {"idle", "done"}
  /\ sbudget.requests = 0 => r = "r1"
  /\ sbudget.requests < MaxRequests
  /\ sbudget' = [sbudget EXCEPT !.requests = sbudget.requests + 1]
  /\ \E sess \in BOOLEAN : req' = [req EXCEPT ![r] = [NoReq EXCEPT !.pc = "account", !.sess = sess]]
  /\ UNCHANGED <<now, keyStatus, account, keyMap, acctMap, rateLimit, nonStickyVars>>

\* (mutant) without an account the request goes on to the upstream call
AfterNoAccountSend == "send"

\* if (!account) throw: relayRequest's catch returns the error, the request is over
AfterNoAccount == "done"

\* droidScheduler.selectAccount: the sticky account while it is eligible (TTL renewed),
\* else the eligible account (mapping written if absent), else no account
SelectAccount(r) ==
  /\ req[r].pc = "account"
  /\ IF Eligible
       THEN /\ acctMap' = IF ~req[r].sess THEN acctMap
                          ELSE IF acctMap = NoMapping THEN SetMappingIfAbsent(acctMap, "acct", now)
                          ELSE ExtendMappingTTL(acctMap, now)
            /\ req' = [req EXCEPT ![r].pc = IF account.auth = "api_key" THEN "entries" ELSE "send"]
       ELSE /\ req' = [req EXCEPT ![r].pc = AfterNoAccount]
            /\ UNCHANGED acctMap
  /\ UNCHANGED <<now, keyStatus, account, keyMap, rateLimit, sbudget, nonStickyVars>>

\* _selectApiKey: the entries are read and filtered; it throws when none is active
GetEntries(r) ==
  /\ req[r].pc = "entries"
  /\ LET active == ActiveEntries(keyStatus)
     IN req' = [req EXCEPT ![r].active = active,
                           ![r].pc = IF active = {} THEN "done"
                                     ELSE IF req[r].sess THEN "lookup" ELSE "pick"]
  /\ UNCHANGED <<now, keyStatus, account, keyMap, acctMap, rateLimit, sbudget, nonStickyVars>>

\* (mutant) a lookup that never finds the mapped entry
MappedEntryNever(active, mappedKeyId) == None

\* activeEntries.find((entry) => entry.id === mappedKeyId)
MappedEntry(active, mappedKeyId) == IF mappedKeyId \in active THEN mappedKeyId ELSE None

\* _selectApiKey: the sticky mapping is read and looked up among the active entries
LookupMapping(r) ==
  /\ req[r].pc = "lookup"
  /\ LET mappedKeyId == GetMapping(keyMap)
         mappedEntry == MappedEntry(req[r].active, mappedKeyId)
     IN req' = [req EXCEPT ![r].mapped = mappedKeyId,
                           ![r].key = mappedEntry,
                           ![r].hit = mappedEntry # None,
                           ![r].pc = IF mappedKeyId = None THEN "pick"
                                     ELSE IF mappedEntry # None THEN "extend" ELSE "stale"]
  /\ UNCHANGED <<now, keyStatus, account, keyMap, acctMap, rateLimit, sbudget, nonStickyVars>>

\* _selectApiKey, sticky hit: the mapping's TTL is extended and the mapped entry returned
\* (touchApiKeyUsage only moves usage counters, which are not part of the state)
ExtendHit(r) ==
  /\ req[r].pc = "extend"
  /\ keyMap' = ExtendMappingTTL(keyMap, now)
  /\ req' = [req EXCEPT ![r].pc = "send"]
  /\ UNCHANGED <<now, keyStatus, account, acctMap, rateLimit, sbudget, nonStickyVars>>

\* _selectApiKey: the mapping names a key that is not active any more and is deleted
DeleteStale(r) ==
  /\ req[r].pc = "stale"
  /\ keyMap' = NoMapping
  /\ req' = [req EXCEPT ![r].pc = "pick"]
  /\ UNCHANGED <<now, keyStatus, account, acctMap, rateLimit, sbudget, nonStickyVars>>

\* (mutant) the mapping is written whatever the store holds
WriteMappingOver(m, id, t) == SetMappingIfAbsent(NoMapping, id, t)

\* if (stickyKey) await redis.setSessionAccountMapping(stickyKey, selectedEntry.id)
WriteMapping(m, id, t) == SetMappingIfAbsent(m, id, t)

\* _selectApiKey: a random active entry is picked, written as the session's mapping
\* and returned
PickKey(r) ==
  /\ req[r].pc = "pick"
  /\ \E k \in req[r].active :
       /\ keyMap' = IF req[r].sess THEN WriteMapping(keyMap, k, now) ELSE keyMap
       /\ req' = [req EXCEPT ![r].key = k, ![r].pc = "send"]
  /\ UNCHANGED <<now, keyStatus, account, acctMap, rateLimit, sbudget, nonStickyVars>>

\* a collaborator call of _selectApiKey throws: relayRequest's catch answers with a
\* mapped network error, no upstream status, no classifier
SelectionThrows(r) ==
  /\ req[r].pc \in {"entries", "lookup", "extend", "stale", "pick"}
  /\ DepOutcome(TRUE)
  /\ req' = [req EXCEPT ![r].pc = "done", ![r].failed = TRUE, ![r].active = {},
                        ![r].mapped = None, ![r].key = None, ![r].hit = FALSE]
  /\ UNCHANGED <<now, keyStatus, account, keyMap, acctMap, rateLimit, nonStickyVars>>

----------------------------------------------------------------------------
(* The upstream's answer and _handleUpstreamClientError *)

IsClientError(st) == st >= 400 /\ st < 500

\* (mutant) a 400 is taken for a credential failure too
IsAuthErrorWide(st) == st \in {400, 401, 403}

IsAuthError(st) == st = 401 \/ st = 403

\* (mutant) a 401/403 is handled like an unclassified 4xx
FirstStepClearOnly(st, auth, key) == IF st = 429 THEN "h_rate" ELSE "h_clearKey"

\* the first awaited call of _handleUpstreamClientError
FirstStep(st, auth, key) ==
  IF IsAuthError(st)
    THEN IF auth = "api_key" /\ key # None THEN "h_mark" ELSE "h_stop"
    ELSE IF st = 429 THEN "h_rate" ELSE "h_clearKey"

\* the upstream answers; a 4xx goes to the classifier (the flag last remembers that
\* the used key was then the pool's only key not in error status; of the selection
\* only what the classifier reads is kept)
UpstreamResponds(r) ==
  /\ req[r].pc = "send"
  /\ \E st \in Statuses :
       req' = [req EXCEPT ![r].status = st,
                          ![r].sess = req[r].sess /\ IsClientError(st),
                          ![r].active = {},
                          ![r].mapped = None,
                          ![r].hit = FALSE,
                          ![r].key = IF IsAuthError(st) THEN req[r].key ELSE None,
                          ![r].last = account.auth = "api_key" /\ IsAuthError(st)
                                      /\ ActiveEntries(keyStatus) = {req[r].key},
                          ![r].pc = IF IsClientError(st)
                                      THEN FirstStep(st, account.auth, req[r].key)
                                      ELSE "done"]
  /\ UNCHANGED <<now, keyStatus, account, keyMap, acctMap, rateLimit, sbudget, nonStickyVars>>

\* (mutant) a call without a response is classified like a 401
AfterNetworkErrorClassify(auth, key) ==
  IF auth = "api_key" /\ key # None THEN "h_mark" ELSE "h_stop"

\* status = error?.response?.status is undefined: the classifier is not called and
\* the catch returns the mapped network error
AfterNetworkError(auth, key) == "done"

\* the upstream call ends without a response (a network or transport error); the
\* request keeps what its selection returned
UpstreamFails(r) ==
  /\ req[r].pc = "send"
  /\ req' = [req EXCEPT ![r].pc = AfterNetworkError(account.auth, req[r].key),
                        ![r].active = {}]
  /\ UNCHANGED <<now, keyStatus, account, keyMap, acctMap, rateLimit, sbudget, nonStickyVars>>

\* (mutant) the marker is set without a time to live
RateLimitMarkerKept(t) == [val |-> "1", exp |-> MaxStickyTime + RateLimitTicks + 1]

\* setex droid:ratelimit:<account> rateLimitDuration '1'
RateLimitMarker(t) == [val |-> "1", exp |-> t + RateLimitTicks]

\* 429: setex droid:ratelimit:<account> 300 '1'; a failure is logged
HRateLimit(r) ==
  /\ req[r].pc = "h_rate"
  /\ \E failed \in BOOLEAN :
       /\ DepOutcome(failed)
       /\ rateLimit' = IF failed THEN rateLimit ELSE RateLimitMarker(now)
       /\ req' = [req EXCEPT ![r].pc = "h_clearKey", ![r].failed = req[r].failed \/ failed]
  /\ UNCHANGED <<now, keyStatus, account, keyMap, acctMap, nonStickyVars>>

\* 401/403, pool mode: markApiKeyAsError for the used key; a failure is logged
HMarkKey(r) ==
  /\ req[r].pc = "h_mark"
  /\ \E failed \in BOOLEAN :
       /\ DepOutcome(failed)
       /\ keyStatus' = IF failed THEN keyStatus ELSE MarkApiKeyAsError(keyStatus, req[r].key)
       /\ req' = [req EXCEPT ![r].pc = "h_clearKey", ![r].failed = req[r].failed \/ failed]
  /\ UNCHANGED <<now, account, keyMap, acctMap, rateLimit, nonStickyVars>>

\* (mutant) the classifier returns once the key-level mapping is cleared
AfterClearKeyReturn(st) == IF IsAuthError(st) THEN "h_recheck" ELSE "done"

\* what follows _clearApiKeyStickyMapping: the pool check for 401/403, else
\* _clearAccountStickyMapping
AfterClearKey(st) == IF IsAuthError(st) THEN "h_recheck" ELSE "h_clearAcct"

\* _clearApiKeyStickyMapping: nothing without a session hash; a failed delete is logged
HClearKey(r) ==
  /\ req[r].pc = "h_clearKey"
  /\ \E failed \in BOOLEAN :
       /\ failed => req[r].sess
       /\ DepOutcome(failed)
       /\ keyMap' = IF req[r].sess /\ ~failed THEN NoMapping ELSE keyMap
       /\ req' = [req EXCEPT ![r].pc = AfterClearKey(req[r].status),
                             ![r].clearedKey = req[r].sess /\ ~failed,
                             ![r].failed = req[r].failed \/ failed]
  /\ UNCHANGED <<now, keyStatus, account, acctMap, rateLimit, nonStickyVars>>

\* (mutant) a pool check that never finds the pool exhausted
PoolNeverExhausted(active) == FALSE

\* activeEntries.length === 0
PoolExhausted(active) == active = {}

\* 401/403, pool mode: the entries are read again; the account is stopped when no key
\* is active or the read failed (the flag rem remembers that active keys remained)
HRecheck(r) ==
  /\ req[r].pc = "h_recheck"
  /\ \E failed \in BOOLEAN :
       /\ DepOutcome(failed)
       /\ LET stop == failed \/ PoolExhausted(ActiveEntries(keyStatus))
          IN req' = [req EXCEPT ![r].pc = IF stop THEN "h_stop" ELSE "done",
                                ![r].rem = ~stop,
                                ![r].failed = req[r].failed \/ failed]
  /\ UNCHANGED <<now, keyStatus, account, keyMap, acctMap, rateLimit, nonStickyVars>>

\* the fields _stopDroidAccountScheduling writes with updateAccount
StopFields == [schedulable |-> FALSE, status |-> "error"]

\* _stopDroidAccountScheduling; a failed update is logged
HStop(r) ==
  /\ req[r].pc = "h_stop"
  /\ \E failed \in BOOLEAN :
       /\ DepOutcome(failed)
       /\ account' = IF failed THEN account
                     ELSE [account EXCEPT !.schedulable = StopFields.schedulable,
                                          !.status = StopFields.status]
       /\ req' = [req EXCEPT ![r].pc = "h_clearAcct", ![r].failed = req[r].failed \/ failed]
  /\ UNCHANGED <<now, keyStatus, keyMap, acctMap, rateLimit, nonStickyVars>>

\* _clearAccountStickyMapping: nothing without a session hash; a failed delete is logged
HClearAcct(r) ==
  /\ req[r].pc = "h_clearAcct"
  /\ \E failed \in BOOLEAN :
       /\ failed => req[r].sess
       /\ DepOutcome(failed)
       /\ acctMap' = IF req[r].sess /\ ~failed THEN NoMapping ELSE acctMap
       /\ req' = [req EXCEPT ![r].pc = "done",
                             ![r].clearedAcct = req[r].sess /\ ~failed,
                             ![r].failed = req[r].failed \/ failed]
  /\ UNCHANGED <<now, keyStatus, account, keyMap, rateLimit, nonStickyVars>>

----------------------------------------------------------------------------
(* Selection and classification, concurrent requests of one session *)

NextSticky ==
  \/ StickyTick
  \/ \E r \in Reqs : StartRequest(r)
  \/ \E r \in Reqs : SelectAccount(r)
  \/ \E r \in Reqs : GetEntries(r)
  \/ \E r \in Reqs : LookupMapping(r)
  \/ \E r \in Reqs : ExtendHit(r)
  \/ \E r \in Reqs : DeleteStale(r)
  \/ \E r \in Reqs : PickKey(r)
  \/ \E r \in Reqs : SelectionThrows(r)
  \/ \E r \in Reqs : UpstreamResponds(r)
  \/ \E r \in Reqs : UpstreamFails(r)
  \/ \E r \in Reqs : HRateLimit(r)
  \/ \E r \in Reqs : HMarkKey(r)
  \/ \E r \in Reqs : HClearKey(r)
  \/ \E r \in Reqs : HRecheck(r)
  \/ \E r \in Reqs : HStop(r)
  \/ \E r \in Reqs : HClearAcct(r)

\* the pools the pool-mode runs start from: one or two of the three keys already in
\* error status (a token-mode account's pool plays no part)
InitialPools ==
  {[k \in Keys |-> IF k \in e THEN "error" ELSE "active"] : e \in {{"k1"}, {"k1", "k2"}}}

InitSticky ==
  /\ now = 0
  /\ InitLockVars
  /\ InitRelayVars
  /\ InitStickyVars
  /\ SelAtRest
  /\ PureAtRest
  /\ account \in [status : {"active"}, schedulable : {TRUE}, auth : AuthModes]
  /\ keyStatus \in InitialPools \cup {[k \in Keys |-> "active"]}
  /\ keyStatus = [k \in Keys |-> "active"] <=> account.auth = "oauth"

SpecSticky == InitSticky /\ [][NextSticky]_vars

----------------------------------------------------------------------------
(* One relay operation: errors, settling, usage recording *)

\* the errors the runtime and the service raise: [code, message]
ErrAborted == [code |-> "ECONNRESET", message |-> "aborted"]
ErrHangUp == [code |-> "ECONNRESET", message |-> "socket hang up"]
ErrRefused == [code |-> "ECONNREFUSED", message |-> "connect ECONNREFUSED"]
ErrAxiosTimeout == [code |-> "ECONNABORTED", message |-> "timeout of 600000ms exceeded"]
ErrClosed == [code |-> "", message |-> "Upstream stream closed unexpectedly"]
ErrTimeout == [code |-> "", message |-> "Request timeout"]

\* the messages an error can carry: those of the errors above, of other errors of the
\* runtime and of the HTTP client, and relayRequest's own
Messages ==
  {"", "aborted", "socket hang up", "connect ECONNREFUSED", "timeout of 600000ms exceeded",
   "Upstream stream closed unexpectedly", "Request timeout", "Gateway Timeout",
   "upstream request timeout", "certificate has expired",
   "SSL routines: wrong version number",
   "Client network socket disconnected before secure TLS connection was established",
   "Service Unavailable", "Failed Dependency", "upstream failed", "proxy connect failed",
   "No available Droid account for endpoint type: anthropic"}

\* message.toLowerCase().includes(word), for the messages of the model
MessageIncludes(msg, word) ==
  msg \in (CASE word = "timeout" -> {"Request timeout", "timeout of 600000ms exceeded",
                                     "Gateway Timeout", "upstream request timeout"}
             [] word = "gateway" -> {"Gateway Timeout"}
             [] word = "upstream" -> {"Upstream stream closed unexpectedly",
                                      "upstream request timeout", "upstream failed"}
             [] word = "certificate" -> {"certificate has expired"}
             [] word = "ssl" -> {"SSL routines: wrong version number"}
             [] word = "tls" -> {"Client network socket disconnected before secure TLS connection was established"}
             [] word = "refused" -> {"connect ECONNREFUSED"}
             [] word = "unavailable" -> {"Service Unavailable"}
             [] word = "dependency" -> {"Failed Dependency"}
             [] word = "upstream failed" -> {"upstream failed"}
             [] word = "proxy" -> {"proxy connect failed"}
             [] OTHER -> {})

\* the codes an error can carry: none, the codes the mapping knows, one of them in
\* lower case, and two it does not know
Codes ==
  {"", "ECONNABORTED", "ETIMEDOUT", "ECONNRESET", "EPIPE", "ENOTFOUND", "EAI_AGAIN",
   "ECONNREFUSED", "CERT_HAS_EXPIRED", "UNABLE_TO_VERIFY_LEAF_SIGNATURE", "ENETUNREACH",
   "EHOSTUNREACH", "econnreset", "ERR_BAD_RESPONSE", "DEPTH_ZERO_SELF_SIGNED_CERT"}

\* String(error.code).toUpperCase(), for the codes of the model
UpperCode(code) == IF code = "econnreset" THEN "ECONNRESET" ELSE code

\* (mutant) every error is a bad gateway
MapNetworkErrorStatusDefault(err) == 502

\* _mapNetworkErrorStatus
MapNetworkErrorStatus(err) ==
  LET code == UpperCode(err.code)
  IN IF code \in {"ECONNABORTED", "ETIMEDOUT"} THEN 408
     ELSE IF code \in {"ECONNRESET", "EPIPE"} THEN 503
     ELSE IF code \in {"ENOTFOUND", "EAI_AGAIN"} THEN 502
     ELSE IF code = "ECONNREFUSED" THEN 503
     ELSE IF code \in {"CERT_HAS_EXPIRED", "UNABLE_TO_VERIFY_LEAF_SIGNATURE"} THEN 502
     ELSE IF code \in {"ENETUNREACH", "EHOSTUNREACH"} THEN 503
     ELSE IF MessageIncludes(err.message, "timeout")
       THEN IF MessageIncludes(err.message, "gateway")
               \/ MessageIncludes(err.message, "upstream")
              THEN 504 ELSE 408
     ELSE IF MessageIncludes(err.message, "certificate") \/ MessageIncludes(err.message, "ssl")
             \/ MessageIncludes(err.message, "tls") THEN 502
     ELSE IF MessageIncludes(err.message, "refused")
             \/ MessageIncludes(err.message, "unavailable") THEN 503
     ELSE IF MessageIncludes(err.message, "dependency")
             \/ MessageIncludes(err.message, "upstream failed") THEN 424
     ELSE 502

\* the body _buildNetworkErrorBody returns: the error type, the number of suggestions
\* (the field is left out when there is none), error.code and the details
ErrorBody(err, errorType, suggestions) ==
  [error |-> errorType, suggestions |-> suggestions, code |-> err.code,
   details |-> IF err.message = "" THEN "unknown" ELSE err.message]

\* _buildNetworkErrorBody
BuildNetworkErrorBody(err) ==
  LET code == UpperCode(err.code)
      msg == err.message
  IN IF code \in {"ECONNABORTED", "ETIMEDOUT"} THEN ErrorBody(err, "timeout", 3)
     ELSE IF code = "ECONNRESET" THEN ErrorBody(err, "connection_reset", 3)
     ELSE IF code \in {"ENOTFOUND", "EAI_AGAIN"} THEN ErrorBody(err, "dns_error", 3)
     ELSE IF code = "ECONNREFUSED" THEN ErrorBody(err, "connection_refused", 3)
     ELSE IF code \in {"CERT_HAS_EXPIRED", "UNABLE_TO_VERIFY_LEAF_SIGNATURE"}
       THEN ErrorBody(err, "certificate_error", 3)
     ELSE IF code = "EPIPE" THEN ErrorBody(err, "broken_pipe", 2)
     ELSE IF code \in {"ENETUNREACH", "EHOSTUNREACH"}
       THEN ErrorBody(err, "network_unreachable", 3)
     ELSE IF MessageIncludes(msg, "timeout")
       THEN IF MessageIncludes(msg, "gateway") \/ MessageIncludes(msg, "upstream")
              THEN ErrorBody(err, "timeout", 3) ELSE ErrorBody(err, "timeout", 2)
     ELSE IF MessageIncludes(msg, "certificate") \/ MessageIncludes(msg, "ssl")
       THEN ErrorBody(err, "certificate_error", 2)
     ELSE IF MessageIncludes(msg, "proxy") THEN ErrorBody(err, "proxy_error", 3)
     ELSE IF MessageIncludes(msg, "dependency") \/ MessageIncludes(msg, "upstream failed")
       THEN ErrorBody(err, "dependency_failed", 3)
     ELSE ErrorBody(err, "network_error", 0)

\* resolveOnce(value)
ResolveOnce(rl, value) ==
  IF rl.settled THEN rl ELSE [rl EXCEPT !.settled = TRUE, !.result = value]

\* (mutant) a failure before the response started leaves the promise pending
RejectNever(rl, err) == rl

\* rejectOnce(error): relayRequest's catch turns the rejection into a mapped network error
RejectOnce(rl, err) ==
  IF rl.settled THEN rl
  ELSE [rl EXCEPT !.settled = TRUE,
                  !.result = [statusCode |-> MapNetworkErrorStatus(err), error |-> TRUE]]

\* (mutant) no error is recognised as a connection reset
IsConnectionResetNever(err) == FALSE

IsConnectionReset(err) == err.code = "ECONNRESET" \/ err.message = "aborted"

\* responseCompleted || upstreamResponse?.complete || clientResponse.writableEnded
UpstreamComplete(rl) == rl.responseCompleted \/ rl.ended \/ rl.clientEnded

\* what is written to the client response: a chunk of the upstream (the n-th to
\* arrive) or an error record
DataChunk(n) == [kind |-> "data", n |-> n]
ErrorRecord == [kind |-> "error", n |-> 0]

\* (mutant) the chunk is written twice
WriteChunkTwice(written, n) == Append(Append(written, DataChunk(n)), DataChunk(n))

\* clientResponse.write(chunk)
WriteChunk(written, n) == Append(written, DataChunk(n))

\* the error body goes out (as JSON, or as an SSE error event once data was
\* forwarded) unless the client response is destroyed or already ended
WriteError(rl) ==
  IF ~rl.clientGone /\ ~rl.clientEnded THEN Append(rl.written, ErrorRecord) ELSE rl.written

\* handleStreamError(error)
HandleStreamError(rl, err) ==
  IF rl.responseStarted
    THEN IF IsConnectionReset(err) /\ (UpstreamComplete(rl) \/ rl.hasForwardedData)
           THEN ResolveOnce([rl EXCEPT !.clientEnded = rl.clientEnded \/ ~rl.clientGone],
                            [statusCode |-> 200, error |-> FALSE])
           ELSE ResolveOnce([rl EXCEPT !.clientEnded = rl.clientEnded \/ ~rl.clientGone,
                                       !.written = WriteError(rl)],
                            [statusCode |-> MapNetworkErrorStatus(err), error |-> TRUE])
    ELSE RejectOnce(rl, err)

\* _recordUsage: the sink is called unless the total is not positive
RecordUsage(s, u) == IF u <= 0 THEN s ELSE Append(s, u)

\* the sink's call throws: _recordUsage logs the error, nothing is recorded
RecordUsageOutcome(s, u, failed) == IF failed THEN s ELSE RecordUsage(s, u)

\* (mutant) a failed side effect replaces the result by an internal error
SideEffectSurfaces(result, failed) ==
  IF failed THEN [statusCode |-> 500, error |-> TRUE] ELSE result

\* a side effect (the classifier's calls, the usage sink) that throws is caught and
\* logged: the result is the one that was on its way
AfterSideEffect(result, failed) == result

\* (mutant) every handler that ends the stream records the usage
RecordingHandlersAll == {"end", "close", "error"}

\* the stream handlers that call _recordUsageFromStreamData
RecordingHandlers == {"end"}

\* what a stream handler leaves in the sink
StreamRecord(handler, rl, s) ==
  IF handler \in RecordingHandlers /\ ~rl.skip THEN RecordUsage(s, rl.usage) ELSE s

\* the same when the sink's call may throw
StreamRecordOutcome(handler, rl, s, failed) ==
  IF failed THEN s ELSE StreamRecord(handler, rl, s)

\* the events the runtime delivers for a response whose socket was destroyed
AbortEvents == {"error", "close"}

\* (mutant) every upstream status is streamed to the client as a success
StreamOkAny(st) == TRUE

\* res.statusCode !== 200 sends the response down the error path
StreamOk(st) == st = 200

\* (mutant) the client-facing error goes out before the classifier is called
RespondThenClassify(st) == <<"respond", "classify">>

\* what the relay does with an upstream error status, in the order of the source: for
\* a 4xx _handleUpstreamClientError is called, then the client-facing error is built
ErrorSequence(st) == IF IsClientError(st) THEN <<"classify", "respond">> ELSE <<"respond">>

----------------------------------------------------------------------------
(* One relay operation: the buffered path *)

RelayStart ==
  /\ relay.pc = "idle"
  /\ \E mode \in {"stream", "buffered"}, skip \in BOOLEAN :
       relay' = [relay EXCEPT !.pc = "sent", !.mode = mode, !.skip = skip]
  /\ UNCHANGED <<sink, nonRelayVars>>

\* axios resolves with a 2xx JSON body: _handleNonStreamResponse
BufferedSuccess ==
  /\ relay.pc = "sent" /\ relay.mode = "buffered"
  /\ \E u \in 0..MaxTokens, failed \in BOOLEAN :
       /\ failed => ~relay.skip /\ u > 0
       /\ sink' = IF relay.skip THEN sink ELSE RecordUsageOutcome(sink, u, failed)
       /\ relay' = [relay EXCEPT !.pc = "closed", !.upstatus = 200, !.usage = u,
                                 !.settled = TRUE, !.sideFailed = failed,
                                 !.result = AfterSideEffect([statusCode |-> 200,
                                                             error |-> FALSE], failed)]
  /\ UNCHANGED nonRelayVars

\* axios rejects with an upstream status: relayRequest's catch awaits the classifier
\* for a 4xx; for another status it returns the error at once
BufferedHttpError ==
  /\ relay.pc = "sent" /\ relay.mode = "buffered"
  /\ \E st \in {401, 500} :
       LET seq == ErrorSequence(st)
           rl == [relay EXCEPT !.upstatus = st, !.events = <<Head(seq)>>,
                               !.classified = Head(seq) = "classify"]
       IN relay' = IF Len(seq) > 1
                     THEN [rl EXCEPT !.pc = "classify"]
                     ELSE [rl EXCEPT !.pc = "closed", !.settled = TRUE,
                                     !.result = [statusCode |-> st, error |-> TRUE]]
  /\ UNCHANGED <<sink, nonRelayVars>>

\* the awaited classifier has come back (or thrown, which is logged): the catch
\* returns the upstream's status and body
BufferedErrorReturn ==
  /\ relay.pc = "classify" /\ relay.mode = "buffered"
  /\ \E failed \in BOOLEAN :
       relay' = [relay EXCEPT !.pc = "closed", !.settled = TRUE, !.sideFailed = failed,
                              !.events = relay.events \o Tail(ErrorSequence(relay.upstatus)),
                              !.result = AfterSideEffect([statusCode |-> relay.upstatus,
                                                          error |-> TRUE], failed)]
  /\ UNCHANGED <<sink, nonRelayVars>>

\* axios rejects without a response: the mapped network error
BufferedNetworkError ==
  /\ relay.pc = "sent" /\ relay.mode = "buffered"
  /\ \E err \in {ErrRefused, ErrAxiosTimeout, ErrHangUp} :
       relay' = [relay EXCEPT !.pc = "closed", !.settled = TRUE,
                              !.result = [statusCode |-> MapNetworkErrorStatus(err),
                                          error |-> TRUE]]
  /\ UNCHANGED <<sink, nonRelayVars>>

----------------------------------------------------------------------------
(* One relay operation: the streaming path, _handleStreamRequest *)

\* the upstream's status line arrives: a 200 starts the stream to the client
StreamHead ==
  /\ relay.pc = "sent" /\ relay.mode = "stream" /\ ~relay.reqDestroyed
  /\ \E st \in {200, 401, 500} :
       relay' = [relay EXCEPT !.upstatus = st,
                              !.responseStarted = StreamOk(st),
                              !.pc = IF StreamOk(st) THEN "open" ELSE "errbody"]
  /\ UNCHANGED <<sink, nonRelayVars>>

\* req 'error' before any response: handleStreamError rejects
ReqError ==
  /\ relay.pc = "sent" /\ relay.mode = "stream" /\ ~relay.reqDestroyed
  /\ \E err \in {ErrRefused, ErrHangUp} :
       relay' = [HandleStreamError(relay, err) EXCEPT !.pc = "closed"]
  /\ UNCHANGED <<sink, nonRelayVars>>

\* req 'timeout': req.destroy(), then handleStreamError(new Error('Request timeout'))
ReqTimeout ==
  /\ relay.pc \in {"sent", "open", "errbody"} /\ relay.mode = "stream"
  /\ ~relay.reqDestroyed /\ ~relay.aborted /\ ~relay.ended
  /\ LET rl == HandleStreamError(relay, ErrTimeout)
     IN relay' = IF relay.pc = "sent"
                   THEN [rl EXCEPT !.pc = "closed", !.reqDestroyed = TRUE]
                   ELSE [rl EXCEPT !.reqDestroyed = TRUE, !.aborted = TRUE,
                                   !.pending = AbortEvents, !.perr = ErrAborted]
  /\ UNCHANGED <<sink, nonRelayVars>>

\* a non-200 response ends: the classifier is called for a 4xx (not awaited), the
\* client gets the upstream status, the promise resolves
ErrBodyEnd ==
  /\ relay.pc = "errbody" /\ ~relay.aborted
  /\ \E failed \in BOOLEAN :
       /\ failed => IsClientError(relay.upstatus)
       /\ relay' = [ResolveOnce(relay, AfterSideEffect([statusCode |-> relay.upstatus,
                                                        error |-> FALSE], failed))
                      EXCEPT !.pc = "closed", !.ended = TRUE, !.sideFailed = failed,
                             !.written = WriteError(relay),
                             !.events = ErrorSequence(relay.upstatus),
                             !.classified = IsClientError(relay.upstatus),
                             !.clientEnded = relay.clientEnded \/ ~relay.clientGone]
  /\ UNCHANGED <<sink, nonRelayVars>>

\* res 'data' of a 200 response: the chunk is written to the client, its usage fields
\* are folded into currentUsageData, the terminal marker is looked for
StreamData ==
  /\ relay.pc = "open" /\ ~relay.aborted /\ ~relay.ended
  /\ relay.chunks < MaxChunks
  /\ \E du \in 0..1, marker \in BOOLEAN :
       relay' = [relay EXCEPT !.hasForwardedData = TRUE,
                              !.written = IF relay.clientGone THEN @
                                          ELSE WriteChunk(@, relay.chunks + 1),
                              !.chunks = relay.chunks + 1,
                              !.usage = relay.usage + du,
                              !.responseCompleted = relay.responseCompleted \/ marker]
  /\ UNCHANGED <<sink, nonRelayVars>>

\* res 'end' of a 200 response, up to its first await: the client response is ended
\* and the usage recorded; without usage recording the promise resolves at once
StreamEnd ==
  /\ relay.pc = "open" /\ ~relay.aborted /\ ~relay.ended
  /\ \E failed \in BOOLEAN :
       /\ failed => ~relay.skip /\ relay.usage > 0
       /\ sink' = StreamRecordOutcome("end", relay, sink, failed)
       /\ LET rl == [relay EXCEPT !.responseCompleted = TRUE, !.ended = TRUE,
                                  !.clientEnded = TRUE, !.pending = {"close"},
                                  !.sideFailed = failed]
          IN relay' = IF relay.skip
                        THEN ResolveOnce(rl, [statusCode |-> 200, error |-> FALSE])
                        ELSE [rl EXCEPT !.endAwait = TRUE]
  /\ UNCHANGED nonRelayVars

\* the 'end' handler comes back from its awaits and resolves
StreamEndSettle ==
  /\ relay.endAwait
  /\ relay' = [ResolveOnce(relay, AfterSideEffect([statusCode |-> 200, error |-> FALSE],
                                                   relay.sideFailed))
                 EXCEPT !.endAwait = FALSE]
  /\ UNCHANGED <<sink, nonRelayVars>>

\* the upstream connection breaks while the response is under way
UpstreamReset ==
  /\ relay.pc \in {"open", "errbody"} /\ ~relay.aborted /\ ~relay.ended
  /\ relay' = [relay EXCEPT !.aborted = TRUE, !.pending = AbortEvents, !.perr = ErrAborted]
  /\ UNCHANGED <<sink, nonRelayVars>>

\* clientResponse 'close': the client is gone; a request still under way is destroyed
\* (the flag cancel remembers whether data had been forwarded by then)
ClientDisconnect ==
  /\ relay.pc # "idle" /\ ~relay.clientGone
  /\ LET gone == [relay EXCEPT !.clientGone = TRUE]
         destroys == relay.mode = "stream" /\ relay.pc \in {"sent", "open", "errbody"}
                     /\ ~relay.reqDestroyed
     IN relay' =
          IF ~destroys THEN gone
          ELSE IF relay.pc = "sent"
            THEN [HandleStreamError(gone, ErrHangUp) EXCEPT !.pc = "closed",
                                                            !.reqDestroyed = TRUE]
          ELSE IF relay.aborted \/ relay.ended
            THEN [gone EXCEPT !.reqDestroyed = TRUE]
          ELSE [gone EXCEPT !.reqDestroyed = TRUE, !.aborted = TRUE,
                            !.pending = AbortEvents, !.perr = ErrAborted,
                            !.cancel = IF relay.pc # "open" THEN "no"
                                       ELSE IF relay.hasForwardedData THEN "forwarded"
                                       ELSE "empty"]
  /\ UNCHANGED <<sink, nonRelayVars>>

\* the pc once an event has been delivered
AfterEvent(rl, ev) == IF rl.pending \ {ev} = {} THEN "closed" ELSE rl.pc

\* res 'error'
ResError ==
  /\ "error" \in relay.pending
  /\ sink' = StreamRecord("error", relay, sink)
  /\ relay' = [HandleStreamError(relay, relay.perr)
                 EXCEPT !.pending = relay.pending \ {"error"},
                        !.pc = AfterEvent(relay, "error")]
  /\ UNCHANGED nonRelayVars

\* res 'close': of a 200 response, settles the promise if nothing has yet; of another
\* response, only logs
ResClose ==
  /\ "close" \in relay.pending
  /\ sink' = StreamRecord("close", relay, sink)
  /\ LET rl == IF ~relay.responseStarted \/ relay.settled THEN relay
               ELSE IF relay.responseCompleted
                 THEN ResolveOnce([relay EXCEPT !.clientEnded = relay.clientEnded
                                                                 \/ ~relay.clientGone],
                                  [statusCode |-> 200, error |-> FALSE])
               ELSE HandleStreamError(relay, ErrClosed)
     IN relay' = [rl EXCEPT !.pending = relay.pending \ {"close"},
                            !.pc = AfterEvent(relay, "close")]
  /\ UNCHANGED nonRelayVars

NextRelay ==
  \/ RelayStart
  \/ BufferedSuccess
  \/ BufferedHttpError
  \/ BufferedErrorReturn
  \/ BufferedNetworkError
  \/ StreamHead
  \/ ReqError
  \/ ReqTimeout
  \/ ErrBodyEnd
  \/ StreamData
  \/ StreamEnd
  \/ StreamEndSettle
  \/ UpstreamReset
  \/ ClientDisconnect
  \/ ResError
  \/ ResClose

InitRelay == now = 0 /\ InitLockVars /\ StickyAtRest /\ InitRelayVars /\ SelAtRest /\ PureAtRest

SpecRelay == InitRelay /\ [][NextRelay]_vars

\* the runtime delivers the events it owes: the 'error' and the 'close' of a response
\* whose socket was destroyed, the 'close' of a response that ended
SpecRelayLive == SpecRelay /\ WF_vars(ResError) /\ WF_vars(ResClose)

----------------------------------------------------------------------------
(* IntelligentAccountSelector: the pure parts *)

\* the usage an account is given when its statistics are not available: 0.5
DefaultUsage == 50

\* the priority an account without one is given
DefaultPriority == 50

\* _enrichAccountsWithBalance, one account: the percentage of the statistics, or the
\* default when there is none
Enriched(a) ==
  [a EXCEPT !.usagePercentage = IF a.usage = Unknown THEN DefaultUsage ELSE a.usage]

\* (mutant) the medium group reaches up to and including its threshold
GroupOfInclusive(a) ==
  IF a.usagePercentage < UsageThresholds.low THEN "low"
  ELSE IF a.usagePercentage <= UsageThresholds.medium THEN "medium"
  ELSE IF a.usagePercentage < UsageThresholds.high THEN "high"
  ELSE "critical"

\* the group _groupAccountsByUsage pushes an account to
GroupOf(a) ==
  IF a.usagePercentage < UsageThresholds.low THEN "low"
  ELSE IF a.usagePercentage < UsageThresholds.medium THEN "medium"
  ELSE IF a.usagePercentage < UsageThresholds.high THEN "high"
  ELSE "critical"

\* the accounts of one group, in the order they were pushed
GroupMembers(accounts, g) == SelectSeq(accounts, LAMBDA a : GroupOf(a) = g)

\* _groupAccountsByUsage
GroupAccountsByUsage(accounts) ==
  [g \in {"low", "medium", "high", "critical"} |-> GroupMembers(accounts, g)]

\* parseInt(account.priority) || 50: the number a number or a numeric string stands
\* for, and the default for 0
ParsedPriority(a) == IF a.priority.v = 0 THEN DefaultPriority ELSE a.priority.v

\* account.priority || 50: the value itself, number or string, and the default
\* for the number 0
RawPriority(a) ==
  IF a.priority.t = "num" /\ a.priority.v = 0
    THEN [t |-> "num", v |-> DefaultPriority]
    ELSE a.priority

\* new Date(a.lastUsedAt).getTime(), 0 without lastUsedAt
LastUsedTime(a) == a.lastUsedAt

\* the two comparators of _selectFromSameGroup
Compare(by, a, b) ==
  IF by = "priority" THEN ParsedPriority(b) - ParsedPriority(a)
  ELSE LastUsedTime(a) - LastUsedTime(b)

\* Array.prototype.sort is stable: an element goes behind every element that does not
\* compare greater than it
RECURSIVE InsertSorted(_, _, _)
InsertSorted(sorted, a, by) ==
  IF sorted = <<>> THEN <<a>>
  ELSE IF Compare(by, sorted[Len(sorted)], a) <= 0 THEN Append(sorted, a)
  ELSE Append(InsertSorted(SubSeq(sorted, 1, Len(sorted) - 1), a, by), sorted[Len(sorted)])

RECURSIVE SortBy(_, _)
SortBy(s, by) ==
  IF s = <<>> THEN <<>>
  ELSE InsertSorted(SortBy(SubSeq(s, 1, Len(s) - 1), by), s[Len(s)], by)

\* (account) => (parseInt(account.priority) || 50) === highestPriority
HasHighestPriority(a, highestPriority) ==
  [t |-> "num", v |-> ParsedPriority(a)] = highestPriority

\* _selectFromSameGroup: undefined when the filter leaves no account
SelectFromSameGroup(accounts) ==
  LET sortedByPriority == SortBy(accounts, "priority")
      highestPriority == RawPriority(sortedByPriority[1])
      highestPriorityAccounts ==
        SelectSeq(sortedByPriority, LAMBDA a : HasHighestPriority(a, highestPriority))
      sortedByLastUsed == SortBy(highestPriorityAccounts, "lastUsed")
  IN IF Len(highestPriorityAccounts) = 1 THEN highestPriorityAccounts[1]
     ELSE IF sortedByLastUsed = <<>> THEN NoAccount
     ELSE sortedByLastUsed[1]

\* _selectFromGroups: the selection of the first group that yields one, else null
RECURSIVE SelectFromGroupList(_)
SelectFromGroupList(priorityGroups) ==
  IF priorityGroups = <<>> THEN NoAccount
  ELSE LET group == Head(priorityGroups)
           selectedAccount == IF Len(group) = 1 THEN group[1] ELSE SelectFromSameGroup(group)
       IN IF group # <<>> /\ selectedAccount # NoAccount THEN selectedAccount
          ELSE SelectFromGroupList(Tail(priorityGroups))

SelectFromGroups(groups) ==
  SelectFromGroupList(<<groups.low, groups.medium, groups.high, groups.critical>>)

----------------------------------------------------------------------------
(* IntelligentAccountSelector: selectOptimalAccount *)

\* no available account: the call throws
SelectNone ==
  /\ sel.pc = "call"
  /\ Len(sel.accounts) = 0
  /\ sel' = [sel EXCEPT !.pc = "threw"]
  /\ UNCHANGED nonSelVars

\* one available account: it is returned as it is
SelectOnly ==
  /\ sel.pc = "call"
  /\ Len(sel.accounts) = 1
  /\ sel' = [sel EXCEPT !.pc = "returned", !.result = sel.accounts[1]]
  /\ UNCHANGED nonSelVars

\* _enrichAccountsWithBalance
EnrichAccounts ==
  /\ sel.pc = "call"
  /\ Len(sel.accounts) > 1
  /\ sel' = [sel EXCEPT !.pc = "enriched",
                        !.enriched = [i \in DOMAIN sel.accounts |-> Enriched(sel.accounts[i])]]
  /\ UNCHANGED nonSelVars

\* _groupAccountsByUsage
GroupAccounts ==
  /\ sel.pc = "enriched"
  /\ sel' = [sel EXCEPT !.pc = "grouped", !.groups = GroupAccountsByUsage(sel.enriched)]
  /\ UNCHANGED nonSelVars

\* _selectFromGroups; without a selected account the call throws into its own catch
SelectAccountFromGroups ==
  /\ sel.pc = "grouped"
  /\ LET selectedAccount == SelectFromGroups(sel.groups)
     IN sel' = [sel EXCEPT !.pc = IF selectedAccount = NoAccount THEN "catch" ELSE "returned",
                           !.result = selectedAccount]
  /\ UNCHANGED nonSelVars

\* the catch: availableAccounts[Math.floor(Math.random() * availableAccounts.length)]
FallbackRandom ==
  /\ sel.pc = "catch"
  /\ \E i \in DOMAIN sel.accounts :
       sel' = [sel EXCEPT !.pc = "returned", !.result = sel.accounts[i], !.fallback = TRUE]
  /\ UNCHANGED nonSelVars

NextSelect ==
  \/ SelectNone
  \/ SelectOnly
  \/ EnrichAccounts
  \/ GroupAccounts
  \/ SelectAccountFromGroups
  \/ FallbackRandom

InitSelect ==
  /\ now = 0
  /\ InitLockVars
  /\ StickyAtRest
  /\ InitRelayVars
  /\ PureAtRest
  /\ \E n \in 0..MaxAccounts : \E f \in [1..n -> Attrs] :
       sel = [NoSel EXCEPT !.pc = "call", !.accounts = AccountList(f)]

SpecSelect == InitSelect /\ [][NextSelect]_vars

----------------------------------------------------------------------------
(* A network error answered to the client *)

\* relayRequest's catch, and handleStreamError, for an error without a response: the
\* status is mapped and the body built
MapError ==
  /\ net.pc = "call"
  /\ net' = [net EXCEPT !.pc = "mapped",
                        !.status = MapNetworkErrorStatus(net.err),
                        !.body = BuildNetworkErrorBody(net.err)]
  /\ UNCHANGED nonNetVars

NextNet == MapError

InitNet ==
  /\ now = 0
  /\ InitLockVars
  /\ StickyAtRest
  /\ InitRelayVars
  /\ SelAtRest
  /\ usg = NoUsg /\ sse = NoSse /\ rb = NoRb /\ ml = NoMulti /\ enc = NoEnc /\ sm = NoSm
  /\ \E code \in Codes, message \in Messages :
       net = [NoNet EXCEPT !.pc = "call", !.err = [code |-> code, message |-> message]]

SpecNet == InitNet /\ [][NextNet]_vars

----------------------------------------------------------------------------
(* Usage normalization *)

\* value === undefined || value === null
Nullish(x) == x.t \in {"undefined", "null"}

\* a ?? b
Coalesce(a, b) == IF Nullish(a) THEN b ELSE a

\* (mutant) the number is not clamped at 0
ToNumberUnclamped(x) ==
  IF x.t \in {"undefined", "null", "empty", "nan"} THEN 0 ELSE x.v

\* toNumber: 0 for undefined, null and '', 0 for what Number() makes no finite number
\* of, else Math.max(0, num)
ToNumber(x) ==
  IF x.t \in {"undefined", "null", "empty"} THEN 0
  ELSE IF x.t = "nan" THEN 0
  ELSE IF x.v > 0 THEN x.v ELSE 0

\* _normalizeUsageSnapshot
NormalizeUsageSnapshot(u) ==
  LET inputTokens ==
        ToNumber(Coalesce(u.input_tokens, Coalesce(u.prompt_tokens,
                   Coalesce(u.inputTokens, u.total_input_tokens))))
      outputTokens ==
        ToNumber(Coalesce(u.output_tokens, Coalesce(u.completion_tokens, u.outputTokens)))
      cacheReadTokens ==
        ToNumber(Coalesce(u.cache_read_input_tokens,
                   Coalesce(u.cacheReadTokens, u.cached_tokens)))
      rawCacheCreateTokens ==
        Coalesce(u.cache_creation_input_tokens,
          Coalesce(u.cacheCreateTokens, Coalesce(u.cache_tokens, Num(0))))
      ephemeral5m == ToNumber(Coalesce(u.c5m, u.ephemeral_5m_input_tokens))
      ephemeral1h == ToNumber(Coalesce(u.c1h, u.ephemeral_1h_input_tokens))
      fold == ephemeral5m > 0 \/ ephemeral1h > 0
      cacheCreateTokens ==
        IF ToNumber(rawCacheCreateTokens) = 0 /\ fold
          THEN ephemeral5m + ephemeral1h
          ELSE ToNumber(rawCacheCreateTokens)
  IN [input_tokens |-> inputTokens,
      output_tokens |-> outputTokens,
      cache_creation_input_tokens |-> cacheCreateTokens,
      cache_read_input_tokens |-> cacheReadTokens,
      cache_creation |-> IF fold
                           THEN [ephemeral_5m_input_tokens |-> ephemeral5m,
                                 ephemeral_1h_input_tokens |-> ephemeral1h,
                                 present |-> TRUE]
                           ELSE NoCacheCreation]

\* _getTotalTokens
GetTotalTokens(usageObject) ==
  ToNumber(Num(usageObject.input_tokens)) + ToNumber(Num(usageObject.output_tokens))
  + ToNumber(Num(usageObject.cache_creation_input_tokens))
  + ToNumber(Num(usageObject.cache_read_input_tokens))

\* the values the fields of the raw usage object are drawn from
RawCounts == {Undefined, Null, EmptyString, NotANumber, Num(-1), Num(0), Num(2), NumString(3)}

\* _recordUsageFromStreamData / _handleNonStreamResponse: the usage object is normalized
\* and its total computed
NormalizeUsage ==
  /\ usg.pc = "call"
  /\ LET normalizedUsage == NormalizeUsageSnapshot(usg.data)
     IN usg' = [usg EXCEPT !.pc = "normalized",
                           !.normalized = normalizedUsage,
                           !.total = GetTotalTokens(normalizedUsage)]
  /\ UNCHANGED nonUsgVars

NextUsage == NormalizeUsage

InitUsage ==
  /\ now = 0
  /\ InitLockVars
  /\ StickyAtRest
  /\ InitRelayVars
  /\ SelAtRest
  /\ net = NoNet /\ sse = NoSse /\ rb = NoRb /\ ml = NoMulti /\ enc = NoEnc /\ sm = NoSm
  /\ \E input \in RawCounts, prompt \in {Undefined, Num(5)},
        output \in {Undefined, NotANumber, Num(-1), Num(3)},
        create \in {Undefined, Null, Num(0), Num(4)},
        read \in {Undefined, Num(-1), Num(1)}, cached \in {Undefined, Num(6)},
        c5m \in {Undefined, Num(0), Num(1)}, c1h \in {Undefined, Num(2)} :
       usg = [NoUsg EXCEPT !.pc = "call",
                           !.data = [NoUsageData EXCEPT
                                       !.input_tokens = input, !.prompt_tokens = prompt,
                                       !.output_tokens = output,
                                       !.cache_creation_input_tokens = create,
                                       !.cache_read_input_tokens = read,
                                       !.cached_tokens = cached,
                                       !.c5m = c5m, !.c1h = c1h]]

SpecUsage == InitUsage /\ [][NextUsage]_vars

----------------------------------------------------------------------------
(* Usage parsed from a stream and from a single body *)

\* one line of the upstream's text: whether it starts with 'data: ', the type of the
\* JSON event after it, where the event holds its usage object, and that object
Line(isData, type, at, usage) == [isData |-> isData, type |-> type, at |-> at, u |-> usage]
EventLine(type) == Line(FALSE, type, "none", NoUsageData)

\* value || 0
OrZero(x) == IF (x.t = "number" /\ x.v # 0) \/ x.t \in {"string", "nan"} THEN x ELSE Num(0)

\* a || b
OrElse(a, b) == IF (a.t = "number" /\ a.v # 0) \/ a.t \in {"string", "nan"} THEN a ELSE b

\* _parseAnthropicUsageFromSSE, one complete line
ParseAnthropicLine(line, cur) ==
  IF ~line.isData THEN cur
  ELSE IF line.type = "message_start" /\ line.at = "message.usage"
    THEN LET a == [cur EXCEPT !.input_tokens = OrZero(line.u.input_tokens),
                              !.cache_creation_input_tokens =
                                 OrZero(line.u.cache_creation_input_tokens),
                              !.cache_read_input_tokens =
                                 OrZero(line.u.cache_read_input_tokens)]
         IN IF line.u.c5m # Undefined \/ line.u.c1h # Undefined
              THEN [a EXCEPT !.c5m = OrZero(line.u.c5m), !.c1h = OrZero(line.u.c1h)]
              ELSE a
  ELSE IF line.type = "message_delta" /\ line.at = "usage"
    THEN [cur EXCEPT !.output_tokens = OrZero(line.u.output_tokens)]
  ELSE cur

\* _parseOpenAIUsageFromSSE, one complete line
ParseOpenAILine(line, cur) ==
  IF ~line.isData \/ line.type = "[DONE]" THEN cur
  ELSE IF line.at = "usage"
    THEN [cur EXCEPT !.input_tokens = OrZero(line.u.prompt_tokens),
                     !.output_tokens = OrZero(line.u.completion_tokens),
                     !.total_tokens = OrZero(line.u.total_tokens)]
  ELSE IF line.at = "response.usage"
    THEN [cur EXCEPT !.input_tokens =
                        OrElse(line.u.input_tokens,
                          OrElse(line.u.prompt_tokens, OrZero(line.u.total_tokens))),
                     !.output_tokens =
                        OrElse(line.u.output_tokens, OrZero(line.u.completion_tokens)),
                     !.total_tokens = OrZero(line.u.total_tokens)]
  ELSE cur

\* the usage parser of the endpoint type, over the first n lines of the text, in order
RECURSIVE ParseLines(_, _, _, _)
ParseLines(endpointType, lines, n, cur) ==
  IF n = 0 THEN cur
  ELSE LET before == ParseLines(endpointType, lines, n - 1, cur)
       IN IF endpointType = "anthropic" THEN ParseAnthropicLine(lines[n], before)
          ELSE IF endpointType = "openai" THEN ParseOpenAILine(lines[n], before)
          ELSE before

\* the lines of (buffer + chunkStr).split('\n') that JSON.parse accepts: all the lines
\* of the text so far but a last one the chunk boundary has cut
CompleteLines(got, k) == (got + k) \div LinePieces

\* res 'data': the usage parser runs over buffer + chunkStr, then buffer += chunkStr
ReceiveChunk ==
  /\ sse.pc = "stream"
  /\ \E k \in 1..(LinePieces * Len(sse.lines) - sse.got) :
       sse' = [sse EXCEPT !.currentUsageData =
                             ParseLines(sse.endpointType, sse.lines,
                                        CompleteLines(sse.got, k), sse.currentUsageData),
                          !.got = sse.got + k,
                          !.chunks = sse.chunks + 1]
  /\ UNCHANGED nonSseVars

\* res 'end': _recordUsageFromStreamData normalizes currentUsageData
StreamSnapshot ==
  /\ sse.pc = "stream"
  /\ sse.got = LinePieces * Len(sse.lines)
  /\ sse' = [sse EXCEPT !.pc = "ended",
                        !.streamed = NormalizeUsageSnapshot(sse.currentUsageData)]
  /\ UNCHANGED nonSseVars

\* _handleNonStreamResponse: the usage object of the single body is normalized
SingleSnapshot ==
  /\ sse.pc \in {"stream", "ended"}
  /\ ~sse.singleDone
  /\ sse' = [sse EXCEPT !.singleDone = TRUE, !.single = NormalizeUsageSnapshot(sse.body)]
  /\ UNCHANGED nonSseVars

NextSse ==
  \/ ReceiveChunk
  \/ StreamSnapshot
  \/ SingleSnapshot

\* the Anthropic Messages answer with the given totals, as a stream and as one body
AnthropicStream(i, o, cc, cr) ==
  <<EventLine("event: message_start"),
    Line(TRUE, "message_start", "message.usage",
         [NoUsageData EXCEPT !.input_tokens = Num(i), !.output_tokens = Num(1),
                             !.cache_creation_input_tokens = Num(cc),
                             !.cache_read_input_tokens = Num(cr)]),
    Line(TRUE, "content_block_delta", "none", NoUsageData),
    Line(TRUE, "message_delta", "usage", [NoUsageData EXCEPT !.output_tokens = Num(o)])>>

AnthropicBody(i, o, cc, cr) ==
  [NoUsageData EXCEPT !.input_tokens = Num(i), !.output_tokens = Num(o),
                      !.cache_creation_input_tokens = Num(cc),
                      !.cache_read_input_tokens = Num(cr)]

\* the OpenAI Chat Completions answer with the given totals
ChatBody(i, o) ==
  [NoUsageData EXCEPT !.prompt_tokens = Num(i), !.completion_tokens = Num(o),
                      !.total_tokens = Num(i + o)]

ChatStream(i, o) ==
  <<Line(TRUE, "chat.completion.chunk", "none", NoUsageData),
    Line(TRUE, "chat.completion.chunk", "usage", ChatBody(i, o)),
    Line(TRUE, "[DONE]", "none", NoUsageData)>>

\* the OpenAI Responses answer with the given totals
ResponseBody(i, o, cr) ==
  [NoUsageData EXCEPT !.input_tokens = Num(i), !.output_tokens = Num(o),
                      !.total_tokens = Num(i + o), !.cached_tokens = Num(cr)]

ResponseStream(i, o, cr) ==
  <<EventLine("event: response.output_text.delta"),
    Line(TRUE, "response.output_text.delta", "none", NoUsageData),
    EventLine("event: response.completed"),
    Line(TRUE, "response.completed", "response.usage", ResponseBody(i, o, cr))>>

InitSse ==
  /\ now = 0
  /\ InitLockVars
  /\ StickyAtRest
  /\ InitRelayVars
  /\ SelAtRest
  /\ net = NoNet /\ usg = NoUsg /\ rb = NoRb /\ ml = NoMulti /\ enc = NoEnc /\ sm = NoSm
  /\ \E i \in {0, 2}, o \in {0, 3}, cc \in {0, 4}, cr \in {0, 1} :
       \/ sse = [NoSse EXCEPT !.pc = "stream", !.endpointType = "anthropic",
                              !.lines = AnthropicStream(i, o, cc, cr),
                              !.body = AnthropicBody(i, o, cc, cr)]
       \/ /\ cc = 0 /\ cr = 0
          /\ sse = [NoSse EXCEPT !.pc = "stream", !.endpointType = "openai",
                                 !.lines = ChatStream(i, o), !.body = ChatBody(i, o)]
       \/ /\ cc = 0
          /\ sse = [NoSse EXCEPT !.pc = "stream", !.endpointType = "openai",
                                 !.lines = ResponseStream(i, o, cr),
                                 !.body = ResponseBody(i, o, cr)]

SpecSse == InitSse /\ [][NextSse]_vars

----------------------------------------------------------------------------
(* The request body: model normalization and system-prompt injection *)

SYSTEM_PROMPT == "You are Droid, an AI software engineering agent built by Factory."

\* this.supportedModels
supportedModels(endpointType) ==
  IF endpointType = "anthropic"
    THEN {Str(<<"claude", "opus", "4", "1", "20250805">>),
          Str(<<"claude", "sonnet", "4", "5", "20250929">>),
          Str(<<"claude", "haiku", "4", "5", "20251001">>),
          Str(<<"claude", "sonnet", "4", "20250514">>),
          Str(<<"claude", "opus", "4", "20250514">>),
          Str(<<"claude", "3", "5", "haiku", "20241022">>)}
  ELSE IF endpointType = "openai"
    THEN {Str(<<"gpt", "5", "2025", "08", "07">>), Str(<<"gpt", "4o">>),
          Str(<<"gpt", "4o", "mini">>), Str(<<"gpt", "4", "turbo">>), Str(<<"gpt", "4">>)}
  ELSE {}

\* this.modelMappings, in the order of Object.entries
modelMappings(endpointType) ==
  IF endpointType = "anthropic"
    THEN <<[pattern |-> <<"claude", "3", "5", "haiku">>,
            target |-> Str(<<"claude", "3", "5", "haiku", "20241022">>)],
           [pattern |-> <<"haiku">>,
            target |-> Str(<<"claude", "3", "5", "haiku", "20241022">>)],
           [pattern |-> <<"sonnet">>,
            target |-> Str(<<"claude", "sonnet", "4", "5", "20250929">>)],
           [pattern |-> <<"claude", "sonnet", "4">>,
            target |-> Str(<<"claude", "sonnet", "4", "5", "20250929">>)],
           [pattern |-> <<"opus">>,
            target |-> Str(<<"claude", "opus", "4", "1", "20250805">>)],
           [pattern |-> <<"claude", "opus", "4">>,
            target |-> Str(<<"claude", "opus", "4", "1", "20250805">>)]>>
  ELSE IF endpointType = "openai"
    THEN <<[pattern |-> <<"gpt", "5">>, target |-> Str(<<"gpt", "5", "2025", "08", "07">>)],
           [pattern |-> <<"gpt", "4o", "latest">>, target |-> Str(<<"gpt", "4o">>)],
           [pattern |-> <<"gpt", "4", "turbo", "preview">>,
            target |-> Str(<<"gpt", "4", "turbo">>)]>>
  ELSE <<>>

\* the lower-case names every object has besides its own keys: mappings[name] is
\* an object, no model name
InheritedKeys == {<<"constructor">>, <<"__proto__">>}

Trim(model) == [model EXCEPT !.padded = FALSE]
ToLowerCase(model) == [model EXCEPT !.upper = FALSE]

\* text.includes(pattern)
Includes(text, pattern) ==
  \E i \in 1..(Len(text) - Len(pattern) + 1) : SubSeq(text, i, i + Len(pattern) - 1) = pattern

\* _validateModel(model, endpointType).valid
ValidateModel(model, endpointType) ==
  /\ model.t = "string" /\ (model.w # <<>> \/ model.padded)
  /\ model \in supportedModels(endpointType)

\* _tryMapModel: the exact key first, then the first pattern the name includes
TryMapModel(model, endpointType) ==
  IF model.t # "string" \/ (model.w = <<>> /\ ~model.padded) THEN NoModel
  ELSE LET mappings == modelMappings(endpointType)
           lowerModel == ToLowerCase(Trim(model))
           exact == {i \in 1..Len(mappings) : mappings[i].pattern = lowerModel.w}
           partial == {i \in 1..Len(mappings) : Includes(lowerModel.w, mappings[i].pattern)}
           First(is) == CHOOSE i \in is : \A j \in is : i <= j
       IN IF exact # {} THEN mappings[First(exact)].target
          ELSE IF lowerModel.w \in InheritedKeys THEN NotAString("object")
          ELSE IF partial # {} THEN mappings[First(partial)].target
          ELSE NoModel

\* (mutant) the model is never mapped
NormalizeRequestBodyNoMapping(requestBody, endpointType) == requestBody

\* _normalizeRequestBody
NormalizeRequestBody(requestBody, endpointType) ==
  IF requestBody.model.t # "string" THEN requestBody
  ELSE LET originalModel == Trim(requestBody.model)
           mappedModel == TryMapModel(originalModel, endpointType)
       IN IF ValidateModel(originalModel, endpointType) THEN requestBody
          ELSE IF mappedModel # NoModel /\ ValidateModel(mappedModel, endpointType)
            THEN [requestBody EXCEPT !.model = mappedModel]
          ELSE requestBody

promptBlock == [type |-> "text", text |-> SYSTEM_PROMPT]

\* (mutant) the prompt is injected whether the body holds it or not
ProcessRequestBodyAlways(requestBody, endpointType, options) ==
  [requestBody EXCEPT
     !.metadata = FALSE,
     !.system = IF endpointType = "anthropic"
                  THEN [t |-> "array",
                        items |-> <<promptBlock>> \o (IF @.t = "array" THEN @.items ELSE <<>>)]
                  ELSE @,
     !.instructions = IF endpointType = "openai"
                        THEN [t |-> "string", s |-> <<SYSTEM_PROMPT>> \o @.s]
                        ELSE @]

\* _processRequestBody
ProcessRequestBody(requestBody, endpointType, options) ==
  LET hasStreamField == requestBody.stream # "absent"
      hasPrompt == \E i \in 1..Len(requestBody.system.items) :
                     requestBody.system.items[i] = promptBlock
      instructions == requestBody.instructions
      hasValidTemperature == requestBody.temperature = "set"
      hasValidTopP == requestBody.top_p = "set"
  IN [requestBody EXCEPT
        !.metadata = FALSE,
        !.stream = IF options.disableStreaming \/ ~options.streamRequested
                     THEN (IF hasStreamField THEN "false" ELSE "absent")
                     ELSE "true",
        !.system = IF endpointType # "anthropic" THEN @
                   ELSE IF @.t = "array"
                     THEN (IF hasPrompt THEN @
                           ELSE [@ EXCEPT !.items = <<promptBlock>> \o @])
                   ELSE [t |-> "array", items |-> <<promptBlock>>],
        !.instructions = IF endpointType # "openai" THEN @
                         ELSE IF instructions.t = "string" /\ instructions.s # <<>>
                           THEN (IF Head(instructions.s) = SYSTEM_PROMPT THEN @
                                 ELSE [@ EXCEPT !.s = <<SYSTEM_PROMPT>> \o @])
                         ELSE [t |-> "string", s |-> <<SYSTEM_PROMPT>>],
        !.top_p = IF hasValidTemperature /\ hasValidTopP THEN "absent" ELSE @]

\* relayRequest: the body is normalized
NormalizeBody ==
  /\ rb.pc = "received"
  /\ rb' = [rb EXCEPT !.pc = "normalized",
                      !.body = NormalizeRequestBody(rb.body, rb.endpointType)]
  /\ UNCHANGED nonRbVars

\* relayRequest: the normalized body is processed; a body that was processed
\* can be processed again with the same options
ProcessBody ==
  /\ rb.pc \in {"normalized", "processed"}
  /\ rb.processed < MaxProcess
  /\ rb' = [rb EXCEPT !.pc = "processed",
                      !.body = ProcessRequestBody(rb.body, rb.endpointType, rb.options),
                      !.processed = rb.processed + 1]
  /\ UNCHANGED nonRbVars

NextRb ==
  \/ NormalizeBody
  \/ ProcessBody

\* the model names clients send, per endpoint type
ModelWords ==
  {<<"claude", "opus", "4", "1", "20250805">>, <<"claude", "sonnet", "4", "5", "20250929">>,
   <<"claude", "3", "5", "haiku", "20241022">>, <<"claude", "sonnet", "4", "20250514">>,
   <<"claude", "3", "5", "haiku">>, <<"haiku">>, <<"sonnet">>, <<"claude", "sonnet", "4">>,
   <<"opus">>, <<"claude", "opus", "4">>,
   <<"claude", "3", "5", "sonnet", "20241022">>, <<"claude", "3", "opus", "20240229">>,
   <<"claude", "3", "haiku", "opus">>, <<"claude", "2">>, <<"gemini", "pro">>,
   <<"gpt", "5", "2025", "08", "07">>, <<"gpt", "4o">>, <<"gpt", "4", "turbo">>, <<"gpt", "4">>,
   <<"gpt", "5">>, <<"gpt", "4o", "latest">>, <<"gpt", "4", "turbo", "preview">>,
   <<"gpt", "5", "mini">>, <<"gpt", "4.1">>, <<"o3">>,
   <<"constructor">>, <<"__proto__">>, <<>>}

Models ==
  ({ModelName(w, upper, padded) : w \in ModelWords, upper \in BOOLEAN, padded \in BOOLEAN}
     \ {ModelName(<<>>, TRUE, FALSE), ModelName(<<>>, TRUE, TRUE)})
  \cup {NoModel, NotAString("number")}

otherBlock == [type |-> "text", text |-> "Answer in one sentence."]

Systems ==
  {[t |-> "undefined", items |-> <<>>], [t |-> "string", items |-> <<>>]}
  \cup {[t |-> "array", items |-> items] :
          items \in {<<>>, <<otherBlock>>, <<promptBlock>>, <<otherBlock, promptBlock>>,
                     <<promptBlock, otherBlock>>, <<promptBlock, promptBlock>>,
                     <<[type |-> "image", text |-> SYSTEM_PROMPT]>>}}

InstructionsOf ==
  {[t |-> "undefined", s |-> <<>>]}
  \cup {[t |-> "string", s |-> s] :
          s \in {<<>>, <<"Answer in one sentence.">>, <<SYSTEM_PROMPT>>,
                 <<SYSTEM_PROMPT, "Answer in one sentence.">>,
                 <<"Answer in one sentence.", SYSTEM_PROMPT>>,
                 <<SYSTEM_PROMPT, SYSTEM_PROMPT, "Answer in one sentence.">>}}

\* the request bodies: every model name in an otherwise plain body, and every
\* other combination of fields under one model name
RequestBodies(endpointType) ==
  {[EmptyBody EXCEPT !.model = m] : m \in Models}
  \cup {[model |-> Str(<<"sonnet">>), system |-> sys, instructions |-> ins,
          metadata |-> md, stream |-> st, temperature |-> te, top_p |-> tp] :
          sys \in (IF endpointType = "anthropic" THEN Systems
                   ELSE {[t |-> "undefined", items |-> <<>>]}),
          ins \in (IF endpointType = "openai" THEN InstructionsOf
                   ELSE {[t |-> "undefined", s |-> <<>>]}),
          md \in BOOLEAN, st \in {"absent", "true", "false"},
          te \in {"absent", "null", "set"}, tp \in {"absent", "null", "set"}}

InitRb ==
  /\ now = 0
  /\ InitLockVars
  /\ StickyAtRest
  /\ InitRelayVars
  /\ SelAtRest
  /\ net = NoNet /\ usg = NoUsg /\ sse = NoSse /\ ml = NoMulti /\ enc = NoEnc /\ sm = NoSm
  /\ \E endpointType \in {"anthropic", "openai"},
        disableStreaming \in BOOLEAN, streamRequested \in BOOLEAN :
       \E requestBody \in RequestBodies(endpointType) :
         rb = [pc |-> "received", endpointType |-> endpointType,
               options |-> [disableStreaming |-> disableStreaming,
                            streamRequested |-> streamRequested],
               requestBody |-> requestBody, body |-> requestBody, processed |-> 0]

SpecRb == InitRb /\ [][NextRb]_vars

----------------------------------------------------------------------------
(* acquireMultipleLocks: one call, its store, and another holder of the resources *)

\* the batches asked for: one or two resources, a resource possibly twice
Batches == {<<a>> : a \in MResources} \cup {<<a, b>> : a \in MResources, b \in MResources}

\* the lease of another caller
OtherEntry == [val |-> RandomValue("o", 0), exp |-> TTLTicks]

\* the value acquireLock draws for the j-th resource of the batch
BatchValue(j) == RandomValue("m", j)

\* acquireMultipleLocks(resources) is called
MultiCall ==
  /\ ml.pc = "idle"
  /\ ml' = [ml EXCEPT !.pc = "acq", !.idx = 1, !.i = 0]
  /\ UNCHANGED nonMlVars

\* one pass of acquireLock's loop for resources[idx] whose SET got a reply: on OK the
\* lock is pushed and the outer loop goes on (or returns the locks); on nil the pass is
\* retried, and after the last pass acquireLock returns null and the release loop starts
MultiAttempt ==
  /\ ml.pc = "acq"
  /\ LET resource == ml.resources[ml.idx]
         set == SetNx(ml.store, resource, BatchValue(ml.idx), TTLTicks, 0)
         last == ml.idx = Len(ml.resources)
     IN ml' = IF set.reply = "OK"
                THEN [ml EXCEPT !.store = set.store,
                                !.locks = Append(ml.locks, [resource |-> resource,
                                                            value |-> BatchValue(ml.idx)]),
                                !.i = 0,
                                !.idx = IF last THEN ml.idx ELSE ml.idx + 1,
                                !.pc = IF last THEN "returned" ELSE "acq",
                                !.result = IF last THEN "locks" ELSE "none"]
              ELSE IF ml.i < Retries THEN [ml EXCEPT !.i = ml.i + 1]
              ELSE IF ml.locks = <<>>
                THEN [ml EXCEPT !.pc = "returned", !.result = "empty"]
              ELSE [ml EXCEPT !.pc = "releasing", !.rel = 1]
  /\ UNCHANGED nonMlVars

\* one pass of acquireLock's loop whose SET threw: the next pass follows, and on the
\* last pass the error is rethrown through acquireMultipleLocks
MultiAttemptError ==
  /\ ml.pc = "acq"
  /\ ml.errors < MaxStoreErrors
  /\ ml' = IF ml.i < Retries
             THEN [ml EXCEPT !.i = ml.i + 1, !.errors = ml.errors + 1]
             ELSE [ml EXCEPT !.pc = "threw", !.result = "threw", !.errors = ml.errors + 1]
  /\ UNCHANGED nonMlVars

\* the release loop: releaseLock(acquiredLock) for the next acquired lock (a store
\* error is swallowed by releaseLock), then return []
MultiRelease ==
  /\ ml.pc = "releasing"
  /\ \E failed \in BOOLEAN :
       /\ failed => ml.errors < MaxStoreErrors
       /\ LET l == ml.locks[ml.rel]
              last == ml.rel = Len(ml.locks)
          IN ml' = [ml EXCEPT !.store = IF failed THEN ml.store
                                        ELSE ReleaseScriptStore(ml.store, l.resource, l.value),
                              !.errors = IF failed THEN ml.errors + 1 ELSE ml.errors,
                              !.rel = IF last THEN ml.rel ELSE ml.rel + 1,
                              !.pc = IF last THEN "returned" ELSE "releasing",
                              !.result = IF last THEN "empty" ELSE "none"]
  /\ UNCHANGED nonMlVars

\* the other holder of a resource releases it
OtherRelease ==
  /\ ml.pc \in {"acq", "releasing"}
  /\ \E k \in MResources :
       /\ ml.store[k] = OtherEntry
       /\ ml' = [ml EXCEPT !.store[k] = NoEntry]
  /\ UNCHANGED nonMlVars

NextMulti ==
  \/ MultiCall
  \/ MultiAttempt
  \/ MultiAttemptError
  \/ MultiRelease
  \/ OtherRelease

InitMulti ==
  /\ now = 0 /\ InitLockVars /\ StickyAtRest /\ InitRelayVars /\ SelAtRest
  /\ net = NoNet /\ usg = NoUsg /\ sse = NoSse /\ rb = NoRb /\ enc = NoEnc /\ sm = NoSm
  /\ \E batch \in Batches, store \in [MResources -> {NoEntry, OtherEntry}] :
       ml = [NoMulti EXCEPT !.resources = batch, !.store = store]

SpecMulti == InitMulti /\ [][NextMulti]_vars

----------------------------------------------------------------------------
(* EncryptionService: encrypt, decrypt and the decrypt cache *)

MaxText == 2        \* UTF-16 code units of a plaintext
MaxEncrypts == 2    \* encrypt calls on the plaintext
MaxDecrypts == 3    \* decrypt calls on the last ciphertext

\* the code units of a plaintext: a BMP character, a high and a low surrogate
Units == {"a", "hi", "lo"}
Contexts == {"default", "other"}
IVs == {1, 2}

\* a string is the sequence of its code units; an encrypted string is the sequence of
\* its colon-separated fields
TextsUpTo(n) == UNION {[1..k -> Units] : k \in 0..n}

\* Buffer.from(text, 'utf8'): a surrogate pair becomes one four-byte sequence, an
\* unpaired surrogate becomes the bytes of U+FFFD
RECURSIVE Utf8Encode(_)
Utf8Encode(t) ==
  IF t = <<>> THEN <<>>
  ELSE IF Len(t) >= 2 /\ t[1] = "hi" /\ t[2] = "lo"
    THEN <<"pair">> \o Utf8Encode(SubSeq(t, 3, Len(t)))
  ELSE IF t[1] \in {"hi", "lo"} THEN <<"fffd">> \o Utf8Encode(Tail(t))
  ELSE <<t[1]>> \o Utf8Encode(Tail(t))

\* (mutant) a decoder that does not know four-byte sequences
RECURSIVE Utf8DecodeBmp(_)
Utf8DecodeBmp(b) ==
  IF b = <<>> THEN <<>>
  ELSE IF Head(b) \in {"pair", "fffd"} THEN <<"rep">> \o Utf8DecodeBmp(Tail(b))
  ELSE <<Head(b)>> \o Utf8DecodeBmp(Tail(b))

\* buffer.toString('utf8')
RECURSIVE Utf8Decode(_)
Utf8Decode(b) ==
  IF b = <<>> THEN <<>>
  ELSE IF Head(b) = "pair" THEN <<"hi", "lo">> \o Utf8Decode(Tail(b))
  ELSE IF Head(b) = "fffd" THEN <<"rep">> \o Utf8Decode(Tail(b))
  ELSE <<Head(b)>> \o Utf8Decode(Tail(b))

\* _deriveKey(context): PBKDF2 of the configured key, salted with the context (the
\* key cache returns the same key)
DeriveKey(context) == <<"key", context>>

\* buffer.toString('hex') and Buffer.from(hex, 'hex')
ToHex(x) == <<"hex", x>>
FromHex(h) == h[2]

\* AES-256-GCM: the ciphertext and the authentication tag of bytes under key and iv
Cipher(key, iv, bytes) == <<"gcm", key, iv, bytes>>
AuthTag(key, iv, bytes) == <<"tag", key, iv, bytes>>

\* createDecipheriv / setAuthTag / update / final: the bytes, or a throw when the tag
\* does not authenticate the ciphertext under this key and iv
Decipher(key, iv, tag, encrypted) ==
  IF encrypted[2] = key /\ encrypted[3] = iv /\ tag = AuthTag(key, iv, encrypted[4])
    THEN [ok |-> TRUE, bytes |-> encrypted[4]]
    ELSE [ok |-> FALSE, bytes |-> <<>>]

\* encrypt(text, context) with the iv crypto.randomBytes drew
Encrypt(text, context, iv) ==
  IF text = <<>> THEN <<>>
  ELSE LET key == DeriveKey(context)
           bytes == Utf8Encode(text)
       IN <<ToHex(iv), ToHex(AuthTag(key, iv, bytes)), ToHex(Cipher(key, iv, bytes))>>

\* sha256 of `${encryptedData}:${context}`
CacheKey(encryptedData, context) == <<encryptedData, context>>

\* _decryptCache.get(cacheKey): the cached entries under the key
CacheGet(cache, cacheKey) == {e \in cache : e.key = cacheKey}

\* decrypt(encryptedData, context) against the cache: the result or the throw, the
\* cache afterwards, and whether the cache served the call. A ciphertext of two
\* fields is handed to _decryptLegacy, which cannot decrypt what encrypt wrote
Decrypt(encryptedData, context, cache) ==
  LET cacheKey == CacheKey(encryptedData, context)
      cached == CacheGet(cache, cacheKey)
      miss == [result |-> <<>>, threw |-> TRUE, cache |-> cache, hit |-> FALSE]
  IN IF encryptedData = <<>>
       THEN [result |-> <<>>, threw |-> FALSE, cache |-> cache, hit |-> FALSE]
     ELSE IF cached # {}
       THEN [result |-> (CHOOSE e \in cached : TRUE).value, threw |-> FALSE,
             cache |-> cache, hit |-> TRUE]
     ELSE IF Len(encryptedData) # 3 THEN miss
     ELSE LET key == DeriveKey(context)
              iv == FromHex(encryptedData[1])
              tag == FromHex(encryptedData[2])
              encrypted == FromHex(encryptedData[3])
              opened == Decipher(key, iv, tag, encrypted)
              result == Utf8Decode(opened.bytes)
          IN IF ~opened.ok THEN miss
             ELSE [result |-> result, threw |-> FALSE, hit |-> FALSE,
                   cache |-> cache \cup {[key |-> cacheKey, value |-> result]}]

\* encrypt(text, context)
EncEncrypt ==
  /\ enc.encrypts < MaxEncrypts
  /\ \E iv \in IVs :
       enc' = [enc EXCEPT !.pc = "encrypted", !.encrypts = enc.encrypts + 1,
                          !.data = Encrypt(enc.text, enc.context, iv),
                          !.decrypts = 0, !.result = <<>>, !.threw = FALSE,
                          !.hit = FALSE, !.dctx = "default"]
  /\ UNCHANGED nonEncVars

\* decrypt(data, context) of the last ciphertext
EncDecrypt ==
  /\ enc.pc \in {"encrypted", "decrypted"}
  /\ enc.decrypts < MaxDecrypts
  /\ \E context \in Contexts :
       LET d == Decrypt(enc.data, context, enc.cache)
       IN enc' = [enc EXCEPT !.pc = "decrypted", !.decrypts = enc.decrypts + 1,
                             !.dctx = context, !.result = d.result, !.threw = d.threw,
                             !.hit = d.hit, !.cache = d.cache]
  /\ UNCHANGED nonEncVars

\* the decrypt cache loses its entries: the TTL of five minutes, cleanup, clearCache
EncEvict ==
  /\ enc.cache # {}
  /\ enc' = [enc EXCEPT !.cache = {}]
  /\ UNCHANGED nonEncVars

NextEnc ==
  \/ EncEncrypt
  \/ EncDecrypt
  \/ EncEvict

InitEnc ==
  /\ now = 0 /\ InitLockVars /\ StickyAtRest /\ InitRelayVars /\ SelAtRest
  /\ net = NoNet /\ usg = NoUsg /\ sse = NoSse /\ rb = NoRb /\ ml = NoMulti /\ sm = NoSm
  /\ \E text \in TextsUpTo(MaxText), context \in Contexts :
       enc = [NoEnc EXCEPT !.text = text, !.context = context]

SpecEnc == InitEnc /\ [][NextEnc]_vars

----------------------------------------------------------------------------
(* StreamManager: registration and cleanup of streams, controllers and timers *)

MaxRegistrations == 3   \* registerStream / createAbortController calls

\* the kinds of resource a registerStream call may carry
ResourceKinds == {"stream", "controller", "timer"}

\* registerStream(id, resources): a stream is stored and its 30-minute timeout becomes
\* the id's timer; a controller is stored; a timer given by the caller is stored last
RegisterStreamMaps(m, id, kinds) ==
  [m EXCEPT !.streams = IF "stream" \in kinds THEN m.streams \cup {id} ELSE m.streams,
            !.controllers = IF "controller" \in kinds THEN m.controllers \cup {id}
                            ELSE m.controllers,
            !.timers[id] = IF "timer" \in kinds THEN "own"
                           ELSE IF "stream" \in kinds THEN "timeout"
                           ELSE m.timers[id]]

\* cleanupStream(id): the stream is destroyed and removed, the controller aborted and
\* removed, the timer cleared and removed
CleanupStreamMaps(m, id) ==
  [m EXCEPT !.streams = m.streams \ {id},
            !.controllers = m.controllers \ {id},
            !.timers[id] = "none"]

\* cleanupStream for each id of a set of ids
RECURSIVE CleanupEach(_, _)
CleanupEach(m, ids) ==
  IF ids = {} THEN m
  ELSE LET id == CHOOSE x \in ids : TRUE
       IN CleanupEach(CleanupStreamMaps(m, id), ids \ {id})

\* the ids cleanupAll walks over: this.activeStreams.keys()
CleanupAllIds(m) == m.streams

RegisterStream ==
  /\ ~sm.cleanedAll /\ sm.registered < MaxRegistrations
  /\ \E id \in StreamIds, kinds \in SUBSET ResourceKinds :
       sm' = [RegisterStreamMaps(sm, id, kinds) EXCEPT !.registered = sm.registered + 1]
  /\ UNCHANGED nonSmVars

\* createAbortController(id)
CreateAbortController ==
  /\ ~sm.cleanedAll /\ sm.registered < MaxRegistrations
  /\ \E id \in StreamIds :
       sm' = [sm EXCEPT !.controllers = sm.controllers \cup {id},
                        !.registered = sm.registered + 1]
  /\ UNCHANGED nonSmVars

\* cleanupStream(id), called directly, by an event of the id's stream (end, close,
\* error, finish), by its timeout, or by the abort of its managed controller
CleanupStream ==
  /\ ~sm.cleanedAll
  /\ \E id \in StreamIds :
       /\ id \in sm.streams \cup sm.controllers \/ sm.timers[id] # "none"
       /\ sm' = CleanupStreamMaps(sm, id)
  /\ UNCHANGED nonSmVars

\* cleanupAll()
CleanupAll ==
  /\ ~sm.cleanedAll
  /\ sm' = [CleanupEach(sm, CleanupAllIds(sm)) EXCEPT !.cleanedAll = TRUE]
  /\ UNCHANGED nonSmVars

NextSm ==
  \/ RegisterStream
  \/ CreateAbortController
  \/ CleanupStream
  \/ CleanupAll

InitSm ==
  /\ now = 0 /\ InitLockVars /\ StickyAtRest /\ InitRelayVars /\ SelAtRest
  /\ net = NoNet /\ usg = NoUsg /\ sse = NoSse /\ rb = NoRb /\ ml = NoMulti /\ enc = NoEnc
  /\ sm = NoSm

SpecSm == InitSm /\ [][NextSm]_vars

----------------------------------------------------------------------------
(* Properties of key selection and of the health classifier *)

\* this step is request r writing the mapping of the key it picked
PickStep(r) == req[r].pc = "pick" /\ req'[r].pc = "send" /\ req[r].sess

LookupStep(r) == req[r].pc = "lookup" /\ req'[r].pc # "lookup" /\ req'[r].pc # "done"

\* this step is request r extending the TTL of the mapping it hit
ExtendStep10(r) == req[r].pc = "extend" /\ req'[r].pc = "send"

LastKeyAuthHandled(r) ==
  /\ req[r].pc = "done"
  /\ IsAuthError(req[r].status)
  /\ account.auth = "api_key"
  /\ req[r].last
  /\ ~req[r].failed

ClientErrorHandled(r) ==
  /\ req[r].pc = "done"
  /\ IsClientError(req[r].status)
  /\ req[r].sess
  /\ ~req[r].failed

RateLimitHandling(r) ==
  /\ req[r].status = 429
  /\ req[r].pc \in {"h_rate", "h_clearKey", "h_clearAcct"}
  /\ req'[r] # req[r]

\* request r's setex of the rate-limit marker went through
MarkerSet(r) == req[r].pc = "h_rate" /\ req'[r].pc = "h_clearKey" /\ sbudget' = sbudget

\* request r leaves the scheduler's selectAccount
AccountStep(r) == req[r].pc = "account" /\ req'[r].pc # "account"

TokenAuthHandled(r) ==
  /\ req[r].pc = "done"
  /\ IsAuthError(req[r].status)
  /\ account.auth = "oauth"
  /\ ~req[r].failed

KeepStatuses == {400, 404, 418}

\* request r takes a step of the classifier for a 400, a 404 or an unclassified 4xx
KeepHandling(r) ==
  /\ req[r].status \in KeepStatuses
  /\ req[r].pc \notin {"idle", "account", "entries", "lookup", "extend", "stale", "pick",
                        "send", "done"}
  /\ req'[r] # req[r]

(* C18: handling a 400, a 404 or an unclassified 4xx leaves the account's status  *)
(* and schedulable flag, every key's status and the rate-limit marker as they    *)
(* were; its only steps delete the session's key-level and account-level sticky  *)
(* mappings, and both are deleted when the request carried a session hash.       *)
C18_KeepsAccountEligible ==
  [][\A r \in Reqs :
       /\ KeepHandling(r) =>
            /\ req[r].pc \in {"h_clearKey", "h_clearAcct"}
            /\ account' = account /\ keyStatus' = keyStatus /\ rateLimit' = rateLimit
            /\ keyMap' \in {keyMap, NoMapping} /\ acctMap' \in {acctMap, NoMapping}
            /\ Eligible => Eligible'
       /\ req'[r].pc = "done" /\ req'[r].status \in KeepStatuses /\ req'[r].sess
            /\ ~req'[r].failed /\ req[r].pc # "done"
            => req'[r].clearedKey /\ req'[r].clearedAcct /\ acctMap' = NoMapping
    ]_vars

\* a 404 of a request with a session hash was handled: both mappings are gone and the
\* account, with the keys it had, is still eligible
C18_Witness ==
  \E r \in Reqs :
    /\ req[r].pc = "done" /\ req[r].status = 404 /\ req[r].sess /\ ~req[r].failed
    /\ req[r].clearedKey /\ req[r].clearedAcct
    /\ keyMap = NoMapping /\ acctMap = NoMapping
    /\ Eligible /\ account.auth = "api_key" /\ ActiveEntries(keyStatus) # {}

(* C19: no step of selection, relay or classification moves a key from error     *)
(* back to active, or an account that is in error status or not schedulable back *)
(* to active or schedulable; an account that is not eligible becomes eligible    *)
(* again only by the expiry of the rate-limit marker.                            *)
C19_NoAutoRecovery ==
  [][/\ \A k \in Keys : keyStatus[k] = "error" => keyStatus'[k] = "error"
     /\ account.status # "active" => account'.status = account.status
     /\ ~account.schedulable => ~account'.schedulable
     /\ ~Eligible /\ Eligible' =>
          /\ now' = now + 1
          /\ rateLimit # NoMapping /\ rateLimit.exp <= now' /\ rateLimit' = NoMapping
          /\ account' = account /\ keyStatus' = keyStatus
    ]_vars

\* every key of the pool ended in error status and the account was stopped; a request
\* that arrived afterwards got no account
C19_Witness ==
  /\ ActiveEntries(keyStatus) = {}
  /\ account.status = "error" /\ ~account.schedulable
  /\ \E r, q \in Reqs :
       /\ r # q
       /\ req[r].pc = "done" /\ IsAuthError(req[r].status) /\ req[r].last
       /\ req[q].pc = "done" /\ req[q].status = 0 /\ ~req[q].failed

\* request r takes its account-selection step and no account is eligible
NoAccountStep(r) == req[r].pc = "account" /\ ~Eligible /\ req'[r] # req[r]

(* C23: when no account is eligible the relay call ends with the selection       *)
(* failure at once: the step after the one selectAccount call ends the request   *)
(* without a key, without an upstream status and without touching the account,   *)
(* the keys or the stored mappings; account selection is entered only by a new   *)
(* relayRequest call of the caller, never again from inside a running one; and   *)
(* a request passes from account selection to the upstream call only with an     *)
(* eligible account.                                                             *)
C23_NoAccountIsFatal ==
  [][\A r \in Reqs :
       /\ NoAccountStep(r) =>
            /\ req'[r] = [req[r] EXCEPT !.pc = "done"]
            /\ req'[r].status = 0 /\ req'[r].key = None
            /\ keyStatus' = keyStatus /\ account' = account /\ rateLimit' = rateLimit
            /\ keyMap' = keyMap /\ acctMap' = acctMap
       /\ req'[r].pc = "account" /\ req[r].pc # "account" =>
            /\ req[r].pc \in {"idle", "done"}
            /\ sbudget'.requests = sbudget.requests + 1
       /\ req[r].pc = "account" /\ req'[r].pc \notin {"account", "done"} => Eligible
       /\ req'[r].status # 0 /\ req[r].status = 0 => req[r].pc = "send"
    ]_vars

\* a request arrived while the account was not eligible although its pool still had
\* an active key: it ended without a key and without an upstream status
C23_Witness ==
  \E r \in Reqs :
    /\ req[r].pc = "done" /\ req[r].status = 0 /\ ~req[r].failed
    /\ req[r].key = None /\ req[r].active = {}
    /\ ~Eligible /\ ActiveEntries(keyStatus) # {}

\* this step is _selectApiKey of request r returning a key
ReturnsKey(r) == req[r].pc \in {"extend", "pick"} /\ req'[r].pc = "send"

\* this step is request r reading and filtering the entries of the pool
EntriesStep(r) == req[r].pc = "entries" /\ req'[r].pc # "entries" /\ ~req'[r].failed

\* the keys of the pool that are not in error status
NotInError == {k \in Keys : keyStatus[k] # "error"}

(* C24 as stated: the key a selection returns is not in error status when it is *)
(* returned.                                                                     *)
C24_AsStated ==
  [][\A r \in Reqs : ReturnsKey(r) => keyStatus'[req'[r].key] # "error"]_vars

(* C24, corrected: a key selection returns only a key that was not in error      *)
(* status in the pool as the selection read it (a key that another request's     *)
(* classifier marks error while the selection is under way can still be         *)
(* returned); a sticky mapping that names a key outside these entries is         *)
(* deleted and another key of them is picked and mapped; and when the pool it    *)
(* read has no key outside error status the selection fails without a key and    *)
(* without writing a mapping.                                                    *)
C24_NoErrorKeySelected ==
  [][\A r \in Reqs :
       /\ EntriesStep(r) =>
            /\ req'[r].active = NotInError
            /\ NotInError = {} =>
                 req'[r].pc = "done" /\ req'[r].key = None /\ keyMap' = keyMap
            /\ NotInError # {} => req'[r].pc \in {"lookup", "pick"}
       /\ ReturnsKey(r) => req'[r].key \in req[r].active
       /\ req[r].pc = "lookup" /\ req'[r].pc \notin {"lookup", "done"}
            /\ keyMap # NoMapping /\ keyMap.val \notin req[r].active =>
                 req'[r].pc = "stale" /\ req'[r].key = None
       /\ req[r].pc = "stale" /\ req'[r].pc \notin {"stale", "done"} =>
            req'[r].pc = "pick" /\ keyMap' = NoMapping
       /\ req[r].pc = "pick" /\ req'[r].pc = "send" /\ req[r].sess /\ keyMap = NoMapping =>
            keyMap'.val = req'[r].key
    ]_vars

\* the session's mapping named a key in error status: the selection dropped it and
\* returned and mapped a key that is not in error status
C24_Witness ==
  \E r \in Reqs :
    /\ req[r].pc = "send" /\ req[r].sess /\ ~req[r].hit
    /\ req[r].mapped \in Keys /\ keyStatus[req[r].mapped] = "error"
    /\ req[r].key \in req[r].active /\ req[r].key # req[r].mapped
    /\ keyStatus[req[r].key] # "error"
    /\ keyMap # NoMapping /\ keyMap.val = req[r].key

----------------------------------------------------------------------------
(* Properties of one relay operation *)

(* C4: within one relay operation the usage sink is called at most once, and    *)
(* only after a successful completion: on the buffered path after the 2xx JSON  *)
(* response was received, on the streaming path after the end event of a 200    *)
(* response; never when usage recording is switched off.                        *)
C4_UsageOnceAfterSuccess ==
  /\ Len(sink) <= 1
  /\ sink # <<>> =>
       /\ ~relay.skip
       /\ relay.upstatus = 200
       /\ sink[1] = relay.usage
       /\ relay.mode = "stream" => relay.ended /\ relay.responseCompleted

\* a stream that forwarded two chunks ended, its usage was recorded once, the promise
\* resolved with 200 and the upstream's close event came after that
C4_Witness ==
  /\ relay.mode = "stream" /\ relay.pc = "closed"
  /\ relay.ended /\ relay.chunks = MaxChunks
  /\ relay.result = [statusCode |-> 200, error |-> FALSE]
  /\ sink = <<relay.usage>>

\* the operation is over: the promise is settled and no event is outstanding
RelayOver == relay.settled /\ relay.pending = {} /\ ~relay.endAwait

(* C8 as stated: a streaming relay cancelled by the client's disconnect records *)
(* exactly the usage parsed from the chunks forwarded so far, and records       *)
(* nothing when nothing had been parsed.                                        *)
C8_AsStated ==
  RelayOver /\ relay.cancel # "no" /\ ~relay.skip =>
    sink = IF relay.usage > 0 THEN <<relay.usage>> ELSE <<>>

UpstreamNon2xx == relay.upstatus # 0 /\ ~(relay.upstatus >= 200 /\ relay.upstatus < 300)

(* C15: a relay operation whose upstream response has a status outside 200-299   *)
(* never calls the usage sink, on the buffered and on the streaming path, and    *)
(* whether or not usage recording is switched on.                                *)
C15_NoUsageOnError == UpstreamNon2xx => sink = <<>>

\* a 401 came back on the streaming path with usage recording switched on: the client
\* got the upstream's status and nothing was recorded
C15_Witness ==
  /\ relay.mode = "stream" /\ relay.upstatus = 401 /\ ~relay.skip
  /\ relay.pc = "closed" /\ relay.ended
  /\ relay.result = [statusCode |-> 401, error |-> FALSE]
  /\ sink = <<>>

\* the client-facing error for the upstream's status has gone out
Responded == \E i \in DOMAIN relay.events : relay.events[i] = "respond"

\* the classifier was called before the client-facing error went out
ClassifiedBefore ==
  \E i, j \in DOMAIN relay.events :
    i < j /\ relay.events[i] = "classify" /\ relay.events[j] = "respond"

(* C16 as stated: for every upstream status outside 200-299 the classifier is    *)
(* called before the client-facing error for that response goes out.             *)
C16_AsStated == UpstreamNon2xx /\ Responded => ClassifiedBefore

(* C16, corrected: for an upstream 4xx the classifier is called before the       *)
(* client-facing error goes out, on the buffered path (where it is awaited: the  *)
(* call is not settled while it runs) and on the streaming path; for any other   *)
(* status outside 200-299 the classifier is never called and the error goes out  *)
(* without a classification.                                                     *)
C16_ClassifierFirst ==
  /\ IsClientError(relay.upstatus) /\ Responded => ClassifiedBefore
  /\ IsClientError(relay.upstatus) /\ relay.settled /\ ~relay.result.error /\ relay.mode = "stream"
       => ClassifiedBefore
  /\ relay.pc = "classify" => ~relay.settled /\ relay.events = <<"classify">>
  /\ UpstreamNon2xx /\ ~IsClientError(relay.upstatus) =>
       \A i \in DOMAIN relay.events : relay.events[i] # "classify"

\* a 401 came back on the buffered path: the classifier was awaited, then the error
\* was returned
C16_Witness ==
  /\ relay.mode = "buffered" /\ relay.upstatus = 401
  /\ relay.pc = "closed" /\ relay.settled
  /\ relay.events = <<"classify", "respond">>
  /\ relay.result = [statusCode |-> 401, error |-> TRUE]

\* a 200 response is under way and the promise of the relay is still open
MidStream == relay.responseStarted /\ ~relay.settled

\* this step delivers the response's 'error' event
ErrorDelivered == "error" \in relay.pending /\ "error" \notin relay'.pending

\* this step delivers the 'close' event of a response that never completed
CloseDelivered ==
  "close" \in relay.pending /\ "close" \notin relay'.pending /\ ~relay.responseCompleted

\* this step is the request's timeout
TimedOut ==
  ~relay.reqDestroyed /\ relay'.reqDestroyed /\ relay'.clientGone = relay.clientGone

\* the failure e is a connection reset after data was forwarded or the stream completed
BenignReset(e) ==
  /\ e.code = "ECONNRESET" \/ e.message = "aborted"
  /\ relay.hasForwardedData \/ relay.responseCompleted \/ relay.ended \/ relay.clientEnded

\* what a step that meets the failure e in mid-stream leaves behind
FailureOutcome(e) ==
  /\ relay'.settled
  /\ ~relay.clientGone => relay'.clientEnded
  /\ relay'.result = IF BenignReset(e)
                       THEN [statusCode |-> 200, error |-> FALSE]
                       ELSE [statusCode |-> MapNetworkErrorStatus(e), error |-> TRUE]

(* C20: the first failure met while a 200 response is under way decides the      *)
(* result: a connection reset after data was forwarded (or after the stream      *)
(* completed) ends the client response and resolves with the success result      *)
(* 200; any other failure (a reset before any data, a timeout, a close without   *)
(* completion) ends the client response and resolves with an error result that   *)
(* carries the mapped status. A settled result is not changed by later events.   *)
C20_ResetAfterData ==
  [][/\ MidStream /\ ErrorDelivered => FailureOutcome(relay.perr)
     /\ MidStream /\ CloseDelivered => FailureOutcome(ErrClosed)
     /\ MidStream /\ TimedOut => FailureOutcome(ErrTimeout)
     /\ relay.settled => relay'.settled /\ relay'.result = relay.result
    ]_vars

\* the upstream connection broke after a chunk had been forwarded and before the
\* terminal marker: the client response was ended and the relay resolved with 200
C20_Witness ==
  /\ relay.mode = "stream" /\ relay.upstatus = 200
  /\ relay.aborted /\ "error" \notin relay.pending /\ relay.perr = ErrAborted
  /\ relay.hasForwardedData /\ ~relay.responseCompleted /\ ~relay.ended
  /\ ~relay.clientGone /\ ~relay.reqDestroyed /\ relay.clientEnded
  /\ relay.settled /\ relay.result = [statusCode |-> 200, error |-> FALSE]

(* C21 as stated: once the client of a buffered relay has disconnected, the      *)
(* upstream call is cancelled (axios never resolves with a response) and no      *)
(* usage is recorded.                                                            *)
C21_AsStated ==
  [][relay.mode = "buffered" /\ relay.clientGone =>
       /\ sink' = sink
       /\ relay.pc = "sent" => relay'.upstatus # 200
    ]_vars

----------------------------------------------------------------------------
(* Properties of the account selector *)

\* the rank of the usage band an account falls in: 1 for low up to 4 for critical
BandRank(a) ==
  LET g == GroupOf(Enriched(a))
  IN IF g = "low" THEN 1 ELSE IF g = "medium" THEN 2 ELSE IF g = "high" THEN 3 ELSE 4

\* the candidates of the band the returned account falls in
BandOfResult == {i \in DOMAIN sel.accounts : BandRank(sel.accounts[i]) = BandRank(sel.result)}

(* C11 as stated: the account selectOptimalAccount returns belongs to the lowest   *)
(* non-empty usage band: no available account falls in a lower band than the     *)
(* returned one.                                                                 *)
C11_AsStated ==
  sel.pc = "returned" =>
    \A i \in DOMAIN sel.accounts : BandRank(sel.result) <= BandRank(sel.accounts[i])

(* C12 as stated: the returned account has the highest configured priority, any   *)
(* value 0-100, among the candidates of its band, and the smallest lastUsedAt     *)
(* among those of them that share this priority.                                  *)
C12_AsStated ==
  sel.pc = "returned" =>
    \A i \in BandOfResult :
      /\ sel.accounts[i].priority.v <= sel.result.priority.v
      /\ sel.accounts[i].priority.v = sel.result.priority.v =>
           sel.result.lastUsedAt <= sel.accounts[i].lastUsedAt

\* the ids of the accounts a sequence of accounts holds
IdsOf(accounts) == {accounts[i].id : i \in DOMAIN accounts}

\* the available accounts whose usage ratio is not known
UnknownIds == {i \in DOMAIN sel.accounts : sel.accounts[i].usage = Unknown}

\* the call has grouped its accounts
Grouped == sel.pc \in {"grouped", "catch", "returned"} /\ Len(sel.enriched) > 0

(* C22 as stated: an account whose usage ratio is unknown gets the ratio 0.5 and *)
(* is put in the medium band.                                                    *)
C22_AsStated ==
  Grouped => UnknownIds \subseteq IdsOf(sel.groups.medium)

(* C22, corrected: an account whose usage ratio is unknown or cannot be fetched  *)
(* gets the ratio 0.5, which the partition (medium is below 50%) puts in the     *)
(* high band, not the medium one; the call does not fail for it: with at least   *)
(* one available account it never throws, and what it returns is one of the      *)
(* available accounts.                                                           *)
C22_UnknownUsageIsHigh ==
  /\ Len(sel.enriched) > 0 =>
       \A i \in UnknownIds : sel.enriched[i].usagePercentage = 50
  /\ Grouped =>
       /\ UnknownIds \subseteq IdsOf(sel.groups.high)
       /\ UnknownIds \cap (IdsOf(sel.groups.low) \cup IdsOf(sel.groups.medium)
                            \cup IdsOf(sel.groups.critical)) = {}
  /\ sel.pc = "threw" => Len(sel.accounts) = 0
  /\ sel.pc = "catch" => Len(sel.accounts) > 0
  /\ sel.pc = "returned" => sel.result.id \in DOMAIN sel.accounts

\* an account of unknown usage and priority 80 met one of 30% usage and priority 30:
\* the call returned the second, from the medium band
C22_Witness ==
  /\ sel.pc = "returned" /\ ~sel.fallback /\ Len(sel.accounts) = 2
  /\ sel.accounts[1].usage = Unknown /\ sel.accounts[1].priority = [t |-> "num", v |-> 80]
  /\ sel.accounts[2].usage = 30 /\ sel.accounts[2].priority = [t |-> "num", v |-> 30]
  /\ IdsOf(sel.groups.high) = {1} /\ IdsOf(sel.groups.medium) = {2}
  /\ sel.result.id = 2

----------------------------------------------------------------------------
(* Properties of the network-error mapping *)

\* the codes the mapping decides by; for any other code the message decides
TimeoutCodes == {"ECONNABORTED", "ETIMEDOUT"}
UnreachableCodes == {"ECONNRESET", "EPIPE", "ECONNREFUSED", "ENETUNREACH", "EHOSTUNREACH"}
GatewayCodes == {"ENOTFOUND", "EAI_AGAIN", "CERT_HAS_EXPIRED", "UNABLE_TO_VERIFY_LEAF_SIGNATURE"}

\* the status the message stands for when the code decides nothing
StatusOfMessage(msg) ==
  IF msg \in {"Gateway Timeout", "upstream request timeout"} THEN 504
  ELSE IF msg \in {"Request timeout", "timeout of 600000ms exceeded"} THEN 408
  ELSE IF msg \in {"connect ECONNREFUSED", "Service Unavailable"} THEN 503
  ELSE IF msg \in {"Failed Dependency", "upstream failed"} THEN 424
  ELSE 502

(* C25 as stated: the mapped status of every error is one of 408, 504, 503, 502. *)
C25_AsStated ==
  net.pc = "mapped" => net.status \in {408, 504, 503, 502}

(* C25, corrected: the error code, upper-cased, decides first: a timeout code     *)
(* gives 408 (whatever the message says), a reset, broken-pipe, refused or       *)
(* unreachable code 503, a DNS or certificate code 502. For any other code the   *)
(* message decides: a timeout gives 408, or 504 when it names the gateway or     *)
(* the upstream; certificate, SSL and TLS failures give 502; refused and         *)
(* unavailable 503; a failed dependency 424; anything else 502. So the mapped    *)
(* status is one of 408, 504, 503, 502 and 424.                                  *)
C25_MappedStatus ==
  net.pc = "mapped" =>
    LET code == IF net.err.code = "econnreset" THEN "ECONNRESET" ELSE net.err.code
    IN /\ net.status \in {408, 504, 503, 502, 424}
       /\ code \in TimeoutCodes => net.status = 408
       /\ code \in UnreachableCodes => net.status = 503
       /\ code \in GatewayCodes => net.status = 502
       /\ code \notin TimeoutCodes \cup UnreachableCodes \cup GatewayCodes =>
            net.status = StatusOfMessage(net.err.message)

\* an error without a code whose message names a failed dependency was mapped to 424
C25_Witness ==
  /\ net.pc = "mapped"
  /\ net.err = [code |-> "", message |-> "Failed Dependency"]
  /\ net.status = 424

(* C26 as stated: the body built for a network error carries a machine-readable  *)
(* error type and at least one suggestion, whatever the error's code and         *)
(* message.                                                                      *)
C26_AsStated ==
  net.pc = "mapped" => net.body.error # "" /\ net.body.suggestions > 0

----------------------------------------------------------------------------
(* Properties of usage normalization *)

\* a raw value that is missing, null, empty, unparseable or negative
BadCount(x) == x.t \in {"undefined", "null", "empty", "nan"} \/ x.v < 0

\* a raw value that is there although it is no count: '', unparseable or negative
SetButBad(x) == BadCount(x) /\ x.t \notin {"undefined", "null"}

\* the raw value and the normalized count agree
CountKept(x, n) == IF BadCount(x) THEN n = 0 ELSE n = x.v

(* C28: the normalized input, output, cache-creation and cache-read counts are   *)
(* non-negative numbers; a field that is missing or null (under every one of its *)
(* names), empty, unparseable or negative gives 0 and any other value gives      *)
(* itself (the first name that is set decides); a cache-creation count of 0 is   *)
(* replaced by the sum of the two cache tiers when one of them is positive; and  *)
(* the total is the sum of the four counts.                                      *)
C28_NormalizedCounts ==
  usg.pc = "normalized" =>
    LET d == usg.data
        n == usg.normalized
        tiers == (IF BadCount(d.c5m) THEN 0 ELSE d.c5m.v)
                 + (IF BadCount(d.c1h) THEN 0 ELSE d.c1h.v)
    IN /\ n.input_tokens \in Nat /\ n.output_tokens \in Nat
       /\ n.cache_creation_input_tokens \in Nat /\ n.cache_read_input_tokens \in Nat
       /\ usg.total = n.input_tokens + n.output_tokens + n.cache_creation_input_tokens
                      + n.cache_read_input_tokens
       /\ CountKept(IF d.input_tokens.t \in {"undefined", "null"}
                      THEN d.prompt_tokens ELSE d.input_tokens, n.input_tokens)
       /\ CountKept(d.output_tokens, n.output_tokens)
       /\ CountKept(IF d.cache_read_input_tokens.t \in {"undefined", "null"}
                      THEN d.cached_tokens ELSE d.cache_read_input_tokens,
                    n.cache_read_input_tokens)
       /\ IF BadCount(d.cache_creation_input_tokens) \/ d.cache_creation_input_tokens.v = 0
            THEN n.cache_creation_input_tokens = tiers
            ELSE n.cache_creation_input_tokens = d.cache_creation_input_tokens.v

\* an unparseable input count, a negative output count, no cache-creation total but a
\* cache tier, and a cache-read count taken from input_tokens_details
C28_Witness ==
  /\ usg.pc = "normalized"
  /\ usg.data.input_tokens = NotANumber /\ usg.data.prompt_tokens = Num(5)
  /\ usg.data.output_tokens = Num(-1)
  /\ usg.data.cache_creation_input_tokens = Undefined
  /\ usg.data.c5m = Num(1) /\ usg.data.c1h = Num(2)
  /\ usg.data.cache_read_input_tokens = Undefined /\ usg.data.cached_tokens = Num(6)
  /\ usg.normalized.input_tokens = 0 /\ usg.normalized.output_tokens = 0
  /\ usg.normalized.cache_creation_input_tokens = 3
  /\ usg.normalized.cache_read_input_tokens = 6
  /\ usg.total = 9

----------------------------------------------------------------------------
(* Properties of the usage parsed from a stream *)

\* the stream has ended and both snapshots are built
BothSnapshots == sse.pc = "ended" /\ sse.singleDone

(* C27 as stated: however the stream was cut into chunks, the snapshot built     *)
(* from it at its end equals the snapshot built from the single body with the    *)
(* same totals.                                                                  *)
C27_AsStated ==
  BothSnapshots => sse.streamed = sse.single

----------------------------------------------------------------------------
(* Properties of the request body *)

\* the copies of the fixed prompt a body holds: the prompt blocks of system (message
\* API), the times the instructions start with the prompt (response API)
RECURSIVE LeadingPrompts(_)
LeadingPrompts(s) ==
  IF s = <<>> \/ Head(s) # SYSTEM_PROMPT THEN 0 ELSE 1 + LeadingPrompts(Tail(s))

PromptCopies(body, endpointType) ==
  IF endpointType = "anthropic"
    THEN Cardinality({i \in 1..Len(body.system.items) : body.system.items[i] = promptBlock})
    ELSE LeadingPrompts(body.instructions.s)

\* the body is processed once more
ProcessedAgain == rb.processed >= 1 /\ rb'.processed = rb.processed + 1

(* C29 as stated: processing a processed body again leaves it as it is, and      *)
(* a processed body holds the fixed prompt exactly once.                         *)
C29_AsStated ==
  /\ [](rb.processed >= 1 => PromptCopies(rb.body, rb.endpointType) = 1)
  /\ [][ProcessedAgain => rb'.body = rb.body]_vars

(* C29: processing a processed body again leaves it as it is; a processed body   *)
(* holds the fixed prompt once when the body received held it at most once, and  *)
(* as often as the body received held it otherwise.                              *)
C29_InjectionIsIdempotent ==
  /\ [](rb.processed >= 1 =>
          PromptCopies(rb.body, rb.endpointType) =
            (IF PromptCopies(rb.requestBody, rb.endpointType) <= 1 THEN 1
             ELSE PromptCopies(rb.requestBody, rb.endpointType)))
  /\ [][ProcessedAgain => rb'.body = rb.body]_vars

\* a body received without the prompt has been processed twice
C29_Witness ==
  /\ rb.processed >= 2
  /\ PromptCopies(rb.requestBody, rb.endpointType) = 0
  /\ PromptCopies(rb.body, rb.endpointType) = 1

\* the targets of the alias table whose key the name, trimmed and in lower case,
\* is or includes
AliasTargets(model, endpointType) ==
  {modelMappings(endpointType)[i].target :
     i \in {j \in 1..Len(modelMappings(endpointType)) :
              Includes(model.w, modelMappings(endpointType)[j].pattern)}}

\* the model once trimmed is in the allow-list of the endpoint type
Supported(model, endpointType) == Trim(model) \in supportedModels(endpointType)

(* C30: after normalization, a model of the allow-list is unchanged; a model     *)
(* outside it is replaced by its alias-table target when that target is in the   *)
(* allow-list, and is unchanged otherwise; nothing else of the body changes and  *)
(* no request is rejected.                                                       *)
C30_ModelNormalization ==
  rb.pc = "normalized" =>
    LET model == rb.requestBody.model
        normalized == rb.body.model
        target == TryMapModel(Trim(model), rb.endpointType)
    IN /\ rb.body = [rb.requestBody EXCEPT !.model = normalized]
       /\ model \in supportedModels(rb.endpointType) => normalized = model
       /\ model.t = "string" /\ ~Supported(model, rb.endpointType)
            /\ target \in supportedModels(rb.endpointType) => normalized = target
       /\ normalized # model =>
            /\ ~Supported(model, rb.endpointType)
            /\ normalized \in supportedModels(rb.endpointType)
            /\ normalized \in AliasTargets(model, rb.endpointType)
       /\ model.t = "string" /\ ~Supported(model, rb.endpointType)
            /\ AliasTargets(model, rb.endpointType) = {} => normalized = model

\* a model outside the allow-list was replaced by its alias-table target
C30_Witness ==
  /\ rb.pc = "normalized"
  /\ rb.requestBody.model.t = "string"
  /\ rb.requestBody.model \notin supportedModels(rb.endpointType)
  /\ rb.body.model \in supportedModels(rb.endpointType)

----------------------------------------------------------------------------
(* Properties of the side effects of one relay operation *)

\* the result the upstream's status calls for: the status itself, as an error on the
\* buffered path unless it is the 200
ResultOfStatus ==
  [statusCode |-> relay.upstatus,
   error |-> (relay.mode = "buffered" /\ relay.upstatus # 200)]

(* C31: a relay operation one of whose side effects failed (the classifier's     *)
(* persisting calls for a 4xx, the usage sink for a 200) settles all the same,   *)
(* with the result the upstream's status calls for: the failure is in neither    *)
(* the status nor the error flag.                                                *)
C31_SideEffectFailureKeepsResponse ==
  relay.sideFailed =>
    /\ relay.settled \/ relay.endAwait
    /\ relay.settled => relay.result = ResultOfStatus

\* an operation whose classifier or usage sink failed has settled
C31_Witness ==
  /\ relay.sideFailed
  /\ relay.settled
  /\ relay.pc = "closed"

----------------------------------------------------------------------------
(* Properties of a relay attempt that ends without an upstream response *)

SelectionPcs == {"account", "entries", "lookup", "extend", "stale", "pick", "send"}
HandlerPcs == {"h_rate", "h_mark", "h_clearKey", "h_recheck", "h_stop", "h_clearAcct"}

\* request r takes a step of its attempt: of its selection, or the upstream call
\* that ends without a response
AttemptStep(r) ==
  /\ req[r].pc \in SelectionPcs
  /\ req'[r] # req[r]
  /\ req'[r].status = 0

\* the upstream call of request r ends without a response
NetworkFailStep(r) == AttemptStep(r) /\ req[r].pc = "send"

(* C32 as stated: no step of an attempt that ends without an upstream response   *)
(* changes the account, a key's status, the rate-limit marker, or the key a      *)
(* sticky mapping that existed names.                                            *)
C32_AsStated ==
  [][\A r \in Reqs : AttemptStep(r) =>
       /\ UNCHANGED <<keyStatus, account, rateLimit>>
       /\ keyMap # NoMapping => keyMap'.val = keyMap.val
       /\ acctMap # NoMapping => acctMap'.val = acctMap.val
    ]_vars

(* C32, corrected: the classifier never runs for a request without an upstream   *)
(* status, and no step of an attempt up to and including the failed upstream     *)
(* call changes the account, a key's status or the rate-limit marker; the failed *)
(* call itself changes no mapping. The selection before it is not undone: it may *)
(* have renewed the TTL of the session's mappings, deleted a key-level mapping   *)
(* it found stale, and written a mapping where there was none.                   *)
C32_NetworkErrorSideEffects ==
  /\ [](\A r \in Reqs : req[r].pc \in HandlerPcs => IsClientError(req[r].status))
  /\ [][\A r \in Reqs : AttemptStep(r) =>
         /\ UNCHANGED <<keyStatus, account, rateLimit>>
         /\ NetworkFailStep(r) => UNCHANGED <<keyMap, acctMap>>
         /\ keyMap' # keyMap =>
              \/ req[r].pc = "extend" /\ keyMap'.val = keyMap.val
              \/ req[r].pc = "stale" /\ keyMap' = NoMapping
              \/ req[r].pc = "pick" /\ keyMap = NoMapping /\ keyMap'.val = req'[r].key
         /\ acctMap' # acctMap =>
              /\ req[r].pc = "account"
              /\ acctMap = NoMapping \/ acctMap'.val = acctMap.val
      ]_vars

\* a request whose selection found the session's mapping stale, deleted it and
\* picked another key has ended without an upstream response
C32_Witness ==
  \E r \in Reqs :
    /\ req[r].pc = "done"
    /\ req[r].status = 0
    /\ req[r].key # None
    /\ req[r].mapped # None
    /\ ~req[r].hit

----------------------------------------------------------------------------
(* Properties of what the streaming path writes to the client *)

\* the first k chunks of the upstream, in arrival order
Chunks(k) == [i \in 1..k |-> DataChunk(i)]

(* C33: what the streaming path has written to the client is, at every moment,   *)
(* the chunks of the upstream in arrival order, each once (all that arrived      *)
(* while the client was connected), followed by at most one error record.        *)
C33_ForwardedOnceInOrder ==
  relay.mode = "stream" =>
    \E k \in 0..relay.chunks :
      /\ relay.written \in {Chunks(k), Append(Chunks(k), ErrorRecord)}
      /\ k < relay.chunks => relay.clientGone

\* a stream failed after both its chunks were forwarded: the client holds the two
\* chunks and the error record
C33_Witness ==
  /\ relay.mode = "stream"
  /\ relay.chunks = MaxChunks
  /\ relay.written = Append(Chunks(MaxChunks), ErrorRecord)

----------------------------------------------------------------------------
(* Properties of the settlement of a streaming relay *)

\* the upstream side of a streaming relay is over: the response ended, its socket
\* was destroyed (upstream reset, timeout, client disconnect), or the request failed
UpstreamOver ==
  relay.mode = "stream" /\ (relay.ended \/ relay.aborted \/ relay.pc = "closed")

(* C35: a streaming relay settles exactly once and eventually: a settled promise  *)
(* stays settled with the value it got, and once the upstream has ended, errored, *)
(* timed out or closed, for a 200 and for any other status, the promise is        *)
(* settled, whatever the order of end, close, error, timeout and client close.    *)
C35_SettlesOnceEventually ==
  /\ [][relay.settled => relay'.settled /\ relay'.result = relay.result]_vars
  /\ UpstreamOver ~> relay.settled

\* a non-200 response whose socket was destroyed before its end: the promise was
\* rejected by the response's 'error' event
C35_Witness ==
  /\ relay.mode = "stream" /\ relay.upstatus # 0 /\ ~StreamOk(relay.upstatus)
  /\ relay.aborted /\ ~relay.ended /\ relay.pending = {}
  /\ relay.settled /\ relay.result.error

----------------------------------------------------------------------------
(* Properties of the pool of a schedulable account *)

\* every key of the pool-mode account is in error status
AllKeysInError == account.auth = "api_key" /\ ActiveEntries(keyStatus) = {}

\* _selectApiKey of request r reads the entries, finds none active and throws
EmptyPoolThrow(r) ==
  /\ req[r].pc = "entries" /\ req'[r] # req[r]
  /\ req'[r].pc = "done" /\ req'[r].active = {}

(* C36: in every state reached through key selections and classifier steps, a    *)
(* pool-mode account all of whose keys are in error status is unschedulable, and *)
(* no key selection finds an empty pool on a schedulable account.                *)
C36_AsStated ==
  /\ [](AllKeysInError => ~account.schedulable)
  /\ [][\A r \in Reqs : EmptyPoolThrow(r) => ~account.schedulable]_vars

----------------------------------------------------------------------------
(* Properties of withLock's auto-extension *)

\* the auto-extend timers of caller c's lock
ArmedFor(c) == {tm \in timer : tm.value = lock[c].value}

\* the function wrapped by caller c's withLock is running
Running(c) == lpc[c] = "fn" /\ lock[c] # NoLock

\* while the timer is armed and not overdue, the lease lasts beyond its next firing
LeaseOutlivesInterval ==
  \A c \in Callers : \A tm \in ArmedFor(c) :
    Running(c) /\ now <= tm.at => StoredUnder(c) /\ lockStore[Resource].exp > tm.at

\* the callback of timer tm extended the lease
Extended(tm) == lbudget' = lbudget /\ ValueMatches(lockStore, Resource, tm.value)

C38_AsStated ==
  \A c \in Callers : lpc[c] = "settled" => ArmedFor(c) = {}

----------------------------------------------------------------------------
(* Properties of acquireMultipleLocks *)

\* the call is over
MultiSettled == ml.pc \in {"returned", "threw"}

\* the store holds resource k under a value of this call
HeldByBatch(k) == ml.store[k] # NoEntry /\ ml.store[k].val[1] = "m"

\* one lock for every requested resource, in order
OneLockEach ==
  /\ Len(ml.locks) = Len(ml.resources)
  /\ \A j \in 1..Len(ml.locks) : ml.locks[j].resource = ml.resources[j]

(* C39: acquireMultipleLocks is all-or-nothing: when the call is over it has      *)
(* either returned one lock for every requested resource, or it has failed and   *)
(* none of its resources is held under a value of the call.                      *)
C39_AsStated ==
  MultiSettled =>
    \/ ml.result = "locks" /\ OneLockEach
    \/ ml.result # "locks" /\ \A k \in MResources : ~HeldByBatch(k)

----------------------------------------------------------------------------
(* Properties of encrypt and decrypt *)

\* no surrogate of the text is unpaired
WellFormed(t) ==
  \A i \in 1..Len(t) :
    /\ t[i] = "hi" => i < Len(t) /\ t[i + 1] = "lo"
    /\ t[i] = "lo" => i > 1 /\ t[i - 1] = "hi"

\* the last ciphertext was decrypted with the context it was encrypted with
SameContext == enc.pc = "decrypted" /\ enc.dctx = enc.context

\* encrypt of the empty string is the empty string, and so is its decryption
EmptyStaysEmpty ==
  enc.text = <<>> =>
    /\ enc.pc # "idle" => enc.data = <<>>
    /\ enc.pc = "decrypted" => enc.result = <<>> /\ ~enc.threw

(* C34 as stated: for every non-empty plaintext and context, decrypting what      *)
(* encrypt returned with the same context gives the plaintext back, on the first  *)
(* call and on a call served from the decrypt cache; the empty string encrypts to *)
(* the empty string.                                                              *)
C34_AsStated ==
  /\ EmptyStaysEmpty
  /\ SameContext /\ enc.text # <<>> => ~enc.threw /\ enc.result = enc.text

(* C34, corrected: for every non-empty plaintext without an unpaired surrogate    *)
(* and every context, decrypting what encrypt returned with the same context      *)
(* gives the plaintext back, on the first call and on a call served from the      *)
(* decrypt cache; the empty string encrypts to the empty string.                  *)
C34_RoundTrip ==
  /\ EmptyStaysEmpty
  /\ SameContext /\ enc.text # <<>> /\ WellFormed(enc.text)
       => ~enc.threw /\ enc.result = enc.text

\* a plaintext with a surrogate pair came back from the decrypt cache
C34_Witness ==
  /\ SameContext /\ enc.hit /\ enc.decrypts >= 2
  /\ enc.text = <<"a", "hi", "lo">> \/ enc.text = <<"hi", "lo">>
  /\ enc.result = enc.text

----------------------------------------------------------------------------
(* Properties of the StreamManager *)

\* getStats().totalResources
TotalResources ==
  Cardinality(sm.streams) + Cardinality(sm.controllers)
    + Cardinality({id \in StreamIds : sm.timers[id] # "none"})

\* hasResource(id)
HasResource(id) == id \in sm.streams \/ id \in sm.controllers \/ sm.timers[id] # "none"

(* C40: after cleanupAll no stream, abort controller or timer remains registered: *)
(* the total resource count is zero and hasResource is false for every id.        *)
C40_AsStated ==
  sm.cleanedAll => TotalResources = 0 /\ \A id \in StreamIds : ~HasResource(id)

====
